---- MODULE Spec2Model ----
(***************************************************************************)
(* A model of populate-scamplers: the batch submitter of app.py            *)
(* (_post_many, _write_errors, _update_cellnoor_api), the institutions run *)
(* of main.py with its local cache, and the de-duplication of the          *)
(* models/*.py row mappers.                                                *)
(*                                                                         *)
(* The repository holds several revisions side by side, so the model is a  *)
(* family of state machines over one set of variables.  Each specification *)
(* (SpecApp, SpecMain, SpecProjects, ...) starts its own machine and keeps  *)
(* the variables of the others at their idle values.                       *)
(***************************************************************************)
EXTENDS Integers, Sequences, FiniteSets, TLC

VARIABLES
    \* ---- app.py: _update_cellnoor_api and _post_many
    settings,      \* the entity types whose CsvSpec is set in Settings
    stage,         \* index into Stages of the stage being processed
    pc,            \* "off" | "idle" | "gather" | "raised" | "done"
    tasks,         \* the tasks of the current TaskGroup, in creation order
    responses,     \* what the last _post_many returned: (request, response) pairs
    errors_dir,    \* error artifacts: subdirectory -> sequence of files
    handed,        \* history: the (request, response) pairs _write_errors acted on
    sends          \* history: how many requests have been started in this run

varsApp == <<settings, stage, pc, tasks, responses, errors_dir, handed, sends>>

VARIABLES
    \* ---- main.py: the institutions run and its cache
    csv,           \* the rows of the institutions CSV
    cache_exists,  \* whether cache_dir/institutions exists
    cache,         \* cache_dir/institutions: file name -> file content
    remote,        \* the institutions the remote holds, as it accepted them
    run,           \* the number of the current run of main
    mpc,           \* "off" | "start" | "gather" | "write" | "raised" | "done"
    mtasks,        \* the tasks of send_institutions' TaskGroup
    institutions,  \* what parse_institutions returned in this run
    submitted,     \* the institutions whose request this run has started
    accepted,      \* the institutions the remote accepted in an earlier run
    cleanRun       \* history: the first run that ended with its cache written

varsMain == <<csv, cache_exists, cache, remote, run, mpc, mtasks, institutions,
              submitted, accepted, cleanRun>>

VARIABLES
    \* ---- app.py, models/projects.py: the projects stage, run after run
    pcsv,                   \* the rows of the projects CSV
    empty_fn,               \* Settings.projects.empty_fn
    premote,                \* the projects the remote holds, as it stored them
    prun,                   \* the number of the current run
    ppc,                    \* "off" | "start" | "post" | "raised" | "done"
    pre_existing_projects,  \* the keys of the map fetched in this run
    new_projects,           \* what csv_to_new_projects returned in this run
    pclean                  \* history: every earlier run had all its posts stored

varsProjects == <<pcsv, empty_fn, premote, prun, ppc, pre_existing_projects,
                  new_projects, pclean>>

VARIABLES
    \* ---- models/sequencing_runs.py: csv_to_sequencing_runs, run after run
    scsv,             \* the rows of the sequencing submissions CSV
    sremote,          \* the readable ids of the sequencing runs the remote holds
    srun,             \* the number of the current run
    spc,              \* "off" | "start" | "parsed" | "done"
    sequencing_runs,  \* what csv_to_sequencing_runs yielded in this run
    sclean            \* history: every run so far had all its runs created

varsSeq == <<scsv, sremote, srun, spc, sequencing_runs, sclean>>

VARIABLES
    \* ---- models/specimens.py: csvs_to_new_specimens and its cache
    specimen_csv,     \* the rows of the specimens CSV
    specimens_cache,  \* cache_dir/specimens: file name -> file content
    xrun,             \* the number of the current run
    xpc,              \* "off" | "start" | "parsed" | "raised" | "done"
    specimens,        \* what csvs_to_new_specimens returned in this run
    next_id           \* the next id the remote assigns to a specimen

varsSpecimens == <<specimen_csv, specimens_cache, xrun, xpc, specimens, next_id>>

VARIABLES
    \* ---- models/specimen_measurements.py: the specimen measurements stage
    measurement_csv,            \* the rows of the specimen measurements CSV
    remote_measurements,        \* the measurements the remote holds
    mrun,                       \* the number of the current run
    mmpc,                       \* "off" | "start" | "parsed" | "raised" | "done"
    new_specimen_measurements   \* what csv_to_new_specimen_measurements returned

varsMeasurements == <<measurement_csv, remote_measurements, mrun, mmpc,
                      new_specimen_measurements>>

VARIABLES
    \* ---- app.py 208-250: the suspensions stage and its measurements
    suspensions_csv,              \* the rows of the suspensions CSV
    remote_suspensions,           \* readable ids of the suspensions the remote holds
    remote_suspension_measurements, \* (suspension id, measurement) the remote holds
    urun,                         \* the number of the current run
    upc,                          \* position in the stage
    new_suspensions,              \* what csv_to_new_suspensions returned
    new_suspension_measurements,  \* the (suspension id, measurement) to post
    uclean                        \* the remote accepted every request so far

varsSuspensions == <<suspensions_csv, remote_suspensions,
                     remote_suspension_measurements, urun, upc,
                     new_suspensions, new_suspension_measurements, uclean>>

VARIABLES
    \* ---- models/people.py: csv_to_person_creations
    people_csv,           \* the rows of the people CSV
    remote_institutions,  \* the institutions the remote answers with
    people_cache,         \* the people read from the cache
    people_pc,            \* "off" | "start" | "parsed" | "raised"
    new_people            \* what _parse_new_people returned

varsPeople == <<people_csv, remote_institutions, people_cache, people_pc,
                new_people>>

VARIABLES
    \* ---- models/labs.py: csv_to_lab_creations
    labs_csv,        \* the rows of the labs CSV
    remote_people,   \* the people the remote answers with
    labs_cache,      \* the labs read from the cache
    labs_pc,         \* "off" | "start" | "parsed" | "raised"
    new_labs         \* what _parse_new_labs returned

varsLabs == <<labs_csv, remote_people, labs_cache, labs_pc, new_labs>>

VARIABLES
    \* ---- app.py _write_error, utils.py write_error
    error_dir,       \* subdirectory -> (file number -> artifact)
    error_log,       \* history: the writes done, in order
    error_calls      \* the number of calls made

varsErrors == <<error_dir, error_log, error_calls>>

VARIABLES
    \* ---- read_write.py: read_from_cache, write_to_cache
    cache_dir,       \* subdirectory -> (filename -> JSON)
    cache_before,    \* history: cache_dir before the last call
    cache_last,      \* history: the last call and its outcome
    cache_written,   \* history: the (subdirectory, filename, entity) written
    cache_ops        \* the number of calls made

varsCache == <<cache_dir, cache_before, cache_last, cache_written, cache_ops>>

VARIABLES
    \* ---- read_write.py: partition_results
    part_results,    \* the (item, task) pairs handed to partition_results
    part_pc,         \* "off" | "start" | "returned" | "raised"
    part_successes,  \* what partition_results returned
    part_logged      \* the exceptions it logged

varsPartition == <<part_results, part_pc, part_successes, part_logged>>

VARIABLES
    \* ---- main.py: two concurrent runs of the institutions stage
    race_csv,        \* the rows of the institutions CSV
    race_cache,      \* the files of cache_dir/institutions
    race_pc,         \* per run: "off" | "start" | "send" | "write" | "done" | "raised"
    race_seen,       \* history, per run: the cache files its check read
    race_new,        \* per run: what parse_institutions returned
    race_sent        \* history, per run: the institutions it submitted

varsRace == <<race_csv, race_cache, race_pc, race_seen, race_new, race_sent>>

VARIABLES
    \* ---- models/cdna.py: csv_to_new_cdna
    cdna_csv,          \* the rows of the cDNA CSV
    remote_cdna,       \* the readable ids of the cDNA the remote holds
    cdna_pc,           \* "off" | "start" | "returned"
    new_cdna           \* what csv_to_new_cdna returned

varsCdna == <<cdna_csv, remote_cdna, cdna_pc, new_cdna>>

\* Python's None, where a string (a sequence of characters) is expected, and
\* where a payload (a record) is expected.
None == <<"None">>
NoPayload == [none |-> TRUE]

\* What the actions of one machine leave alone: the other machines.
AppFrame ==
    UNCHANGED <<varsMain,
                varsProjects,
                varsSeq,
                varsSpecimens,
                varsMeasurements,
                varsSuspensions,
                varsPeople,
                varsLabs,
                varsErrors,
                varsCache,
                varsPartition,
                varsRace,
                varsCdna>>

MainFrame ==
    UNCHANGED <<varsApp,
                varsProjects,
                varsSeq,
                varsSpecimens,
                varsMeasurements,
                varsSuspensions,
                varsPeople,
                varsLabs,
                varsErrors,
                varsCache,
                varsPartition,
                varsRace,
                varsCdna>>

ProjectsFrame ==
    UNCHANGED <<varsApp,
                varsMain,
                varsSeq,
                varsSpecimens,
                varsMeasurements,
                varsSuspensions,
                varsPeople,
                varsLabs,
                varsErrors,
                varsCache,
                varsPartition,
                varsRace,
                varsCdna>>

SeqFrame ==
    UNCHANGED <<varsApp,
                varsMain,
                varsProjects,
                varsSpecimens,
                varsMeasurements,
                varsSuspensions,
                varsPeople,
                varsLabs,
                varsErrors,
                varsCache,
                varsPartition,
                varsRace,
                varsCdna>>

SpecimensFrame ==
    UNCHANGED <<varsApp,
                varsMain,
                varsProjects,
                varsSeq,
                varsMeasurements,
                varsSuspensions,
                varsPeople,
                varsLabs,
                varsErrors,
                varsCache,
                varsPartition,
                varsRace,
                varsCdna>>

MeasurementsFrame ==
    UNCHANGED <<varsApp,
                varsMain,
                varsProjects,
                varsSeq,
                varsSpecimens,
                varsSuspensions,
                varsPeople,
                varsLabs,
                varsErrors,
                varsCache,
                varsPartition,
                varsRace,
                varsCdna>>

SuspensionsFrame ==
    UNCHANGED <<varsApp,
                varsMain,
                varsProjects,
                varsSeq,
                varsSpecimens,
                varsMeasurements,
                varsPeople,
                varsLabs,
                varsErrors,
                varsCache,
                varsPartition,
                varsRace,
                varsCdna>>

PeopleFrame ==
    UNCHANGED <<varsApp,
                varsMain,
                varsProjects,
                varsSeq,
                varsSpecimens,
                varsMeasurements,
                varsSuspensions,
                varsLabs,
                varsErrors,
                varsCache,
                varsPartition,
                varsRace,
                varsCdna>>

LabsFrame ==
    UNCHANGED <<varsApp,
                varsMain,
                varsProjects,
                varsSeq,
                varsSpecimens,
                varsMeasurements,
                varsSuspensions,
                varsPeople,
                varsErrors,
                varsCache,
                varsPartition,
                varsRace,
                varsCdna>>

ErrorsFrame ==
    UNCHANGED <<varsApp,
                varsMain,
                varsProjects,
                varsSeq,
                varsSpecimens,
                varsMeasurements,
                varsSuspensions,
                varsPeople,
                varsLabs,
                varsCache,
                varsPartition,
                varsRace,
                varsCdna>>

CacheFrame ==
    UNCHANGED <<varsApp,
                varsMain,
                varsProjects,
                varsSeq,
                varsSpecimens,
                varsMeasurements,
                varsSuspensions,
                varsPeople,
                varsLabs,
                varsErrors,
                varsPartition,
                varsRace,
                varsCdna>>

PartitionFrame ==
    UNCHANGED <<varsApp,
                varsMain,
                varsProjects,
                varsSeq,
                varsSpecimens,
                varsMeasurements,
                varsSuspensions,
                varsPeople,
                varsLabs,
                varsErrors,
                varsCache,
                varsRace,
                varsCdna>>

RaceFrame ==
    UNCHANGED <<varsApp,
                varsMain,
                varsProjects,
                varsSeq,
                varsSpecimens,
                varsMeasurements,
                varsSuspensions,
                varsPeople,
                varsLabs,
                varsErrors,
                varsCache,
                varsPartition,
                varsCdna>>

CdnaFrame ==
    UNCHANGED <<varsApp,
                varsMain,
                varsProjects,
                varsSeq,
                varsSpecimens,
                varsMeasurements,
                varsSuspensions,
                varsPeople,
                varsLabs,
                varsErrors,
                varsCache,
                varsPartition,
                varsRace>>

\* The values at which a machine that is not running keeps its variables.
AppIdle ==
    /\ settings = {}
    /\ stage = 0
    /\ pc = "off"
    /\ tasks = <<>>
    /\ responses = <<>>
    /\ errors_dir = <<>>
    /\ handed = {}
    /\ sends = 0

ProjectsIdle ==
    /\ pcsv = <<>>
    /\ empty_fn = "lambda row: False"
    /\ premote = <<>>
    /\ prun = 0
    /\ ppc = "off"
    /\ pre_existing_projects = {}
    /\ new_projects = <<>>
    /\ pclean = FALSE

SeqIdle ==
    /\ scsv = <<>>
    /\ sremote = {}
    /\ srun = 0
    /\ spc = "off"
    /\ sequencing_runs = <<>>
    /\ sclean = FALSE

SpecimensIdle ==
    /\ specimen_csv = <<>>
    /\ specimens_cache = <<>>
    /\ xrun = 0
    /\ xpc = "off"
    /\ specimens = <<>>
    /\ next_id = 0

MeasurementsIdle ==
    /\ measurement_csv = <<>>
    /\ remote_measurements = {}
    /\ mrun = 0
    /\ mmpc = "off"
    /\ new_specimen_measurements = <<>>

SuspensionsIdle ==
    /\ suspensions_csv = <<>>
    /\ remote_suspensions = {}
    /\ remote_suspension_measurements = {}
    /\ urun = 0
    /\ upc = "off"
    /\ new_suspensions = <<>>
    /\ new_suspension_measurements = <<>>
    /\ uclean = TRUE

PeopleIdle ==
    /\ people_csv = <<>>
    /\ remote_institutions = <<>>
    /\ people_cache = {}
    /\ people_pc = "off"
    /\ new_people = <<>>

LabsIdle ==
    /\ labs_csv = <<>>
    /\ remote_people = <<>>
    /\ labs_cache = {}
    /\ labs_pc = "off"
    /\ new_labs = <<>>

ErrorsIdle ==
    /\ error_dir = <<>>
    /\ error_log = <<>>
    /\ error_calls = 0

CacheIdle ==
    /\ cache_dir = <<>>
    /\ cache_before = <<>>
    /\ cache_last = [op |-> "none"]
    /\ cache_written = {}
    /\ cache_ops = 0

PartitionIdle ==
    /\ part_results = <<>>
    /\ part_pc = "off"
    /\ part_successes = <<>>
    /\ part_logged = <<>>

RaceIdle ==
    /\ race_csv = <<>>
    /\ race_cache = <<>>
    /\ race_pc = <<"off", "off">>
    /\ race_seen = <<<<>>, <<>>>>
    /\ race_new = <<<<>>, <<>>>>
    /\ race_sent = <<<<>>, <<>>>>

CdnaIdle ==
    /\ cdna_csv = <<>>
    /\ remote_cdna = {}
    /\ cdna_pc = "off"
    /\ new_cdna = <<>>

MainIdle ==
    /\ csv = <<>>
    /\ cache_exists = FALSE
    /\ cache = <<>>
    /\ remote = {}
    /\ run = 0
    /\ mpc = "off"
    /\ mtasks = <<>>
    /\ institutions = <<>>
    /\ submitted = {}
    /\ accepted = {}
    /\ cleanRun = 0

\* The value of a sequence's elements, as a set.
Range(s) == {s[i] : i \in DOMAIN s}

\* The subsequence of s at the indices (in order) that satisfy Keep(_).
RECURSIVE FilterIdx(_, _, _)
FilterIdx(s, keep, i) ==
    IF i > Len(s) THEN <<>>
    ELSE (IF i \in keep THEN <<s[i]>> ELSE <<>>) \o FilterIdx(s, keep, i + 1)

----------------------------------------------------------------------------
(* Bounds of the model.                                                     *)

MaxBatch == 2      \* rows submitted by one _post_many
MaxPosts == 2      \* requests started in one run of _update_cellnoor_api
MaxRows == 2       \* rows of a CSV
MaxRuns == 2       \* runs of the program over the same CSV
MaxUuid == 2       \* distinct UUIDs
MaxDate == 2       \* distinct dates of a CSV column
MaxMeasurementRows == 1   \* rows of a measurements CSV

----------------------------------------------------------------------------
(* app.py: the batch submitter.                                             *)

\* The entity stages of _update_cellnoor_api, in the order of its code.
Stages == <<"institutions", "people", "projects", "specimens",
            "specimen_measurements", "suspensions", "suspension_measurements">>

\* The Settings field that enables a stage: suspension measurements are
\* posted inside the `if suspensions` block.
SettingOf(s) == IF Stages[s] = "suspension_measurements" THEN "suspensions"
                ELSE Stages[s]

SettingNames == {SettingOf(s) : s \in DOMAIN Stages}

\* Stages that hand _post_many a list of URLs, one per payload.
UrlListStages == {"specimen_measurements", "suspension_measurements"}

Unauthorized == 401
Statuses == {201, Unauthorized, 422}

\* httpx.Response.is_error
is_error(status) == status >= 400

\* The owners (specimen or suspension ids) a measurement may belong to.
Owners == {1, 2}

\* The url argument _update_cellnoor_api hands to _post_many: the URL of
\* the entity, or for the measurement stages the list built from the owner
\* of each (owner, measurement) pair, in the order of the pairs.
UrlOf(s, b) ==
    IF Stages[s] \in UrlListStages
    THEN [list |-> TRUE, str |-> <<>>,
          urls |-> [i \in DOMAIN b |-> <<Stages[s], b[i].owner>>]]
    ELSE [list |-> FALSE, str |-> <<Stages[s], 0>>, urls |-> <<>>]

\* The batches a stage may submit: the rows its csv_to_new_* left over.
Batches(s) ==
    UNION {[1..n -> [stage : {s}, k : 1..MaxBatch, owner : Owners]]
             : n \in 0..MaxBatch}

\* A batch submits row k at position k (rows are distinct), an owner only
\* matters for the measurement stages.
WellFormed(s, b) ==
    /\ \A i \in DOMAIN b : b[i].k = i
    /\ Stages[s] \notin UrlListStages => \A i \in DOMAIN b : b[i].owner = 1

\* tg.create_task(client.post(url, json=request_body))
NewTask(url, body) ==
    [body |-> body, url |-> url, state |-> "created", status |-> 0, sent |-> 0]

\* The variant that pairs the payloads with the URLs in reverse.
create_tasks_reversed(url, data) ==
    [i \in DOMAIN data |->
        NewTask(IF url.list THEN url.urls[Len(data) + 1 - i] ELSE url.str, data[i])]

\* The body of the TaskGroup of _post_many: one task per payload, posted to
\* the one URL, or to the URL zip pairs it with.
create_tasks(url, data) ==
    [i \in DOMAIN data |->
        NewTask(IF url.list THEN url.urls[i] ELSE url.str, data[i])]

Done(t) == t.state \in {"responded", "raised", "cancelled"}

\* TaskGroup._abort: every task that is not done is cancelled.
Abort(ts) ==
    [i \in DOMAIN ts |->
        IF Done(ts[i]) THEN ts[i] ELSE [ts[i] EXCEPT !.state = "cancelled"]]

\* The directory name an error artifact of this stage is written under.
filename_generator(s, body) ==
    IF Stages[s] \in UrlListStages THEN <<Stages[s], 0>>
    ELSE <<Stages[s], body.k>>

\* _write_error: the file is named after the number of files in the
\* subdirectory; a 401 response writes nothing.
_write_error(dir, s, pair) ==
    LET sub == filename_generator(s, pair.request)
        old == IF sub \in DOMAIN dir THEN dir[sub] ELSE <<>>
        file == [request |-> pair.request, status |-> pair.status]
        new == IF pair.status = Unauthorized THEN old ELSE Append(old, file)
    IN  [d \in DOMAIN dir \cup {sub} |-> IF d = sub THEN new ELSE dir[d]]

\* _write_errors: _write_error for each pair whose response is an error.
RECURSIVE _write_errors(_, _, _)
_write_errors(dir, s, pairs) ==
    IF pairs = <<>> THEN dir
    ELSE LET d1 == IF is_error(Head(pairs).status)
                   THEN _write_error(dir, s, Head(pairs)) ELSE dir
         IN  _write_errors(d1, s, Tail(pairs))

\* What _post_many returns: one (request, response) pair per task.
Results(ts) ==
    [i \in DOMAIN ts |-> [request |-> ts[i].body, status |-> ts[i].status]]

\* The variant that passes over the stage that follows.
NextStageSkipping(s) == s + 2

NextStage(s) == s + 1

\* A stage whose CsvSpec is not set is skipped.
SkipStage ==
    /\ pc = "idle"
    /\ stage \in DOMAIN Stages
    /\ SettingOf(stage) \notin settings
    /\ stage' = NextStage(stage)
    /\ UNCHANGED <<settings, pc, tasks, responses, errors_dir, handed, sends>>
    /\ AppFrame

\* read_csv, csv_to_new_*, and the body of _post_many's TaskGroup: one task
\* is created per request body, none has run yet.
BeginStage ==
    /\ pc = "idle"
    /\ stage \in DOMAIN Stages
    /\ SettingOf(stage) \in settings
    /\ \E b \in Batches(stage) :
         /\ WellFormed(stage, b)
         /\ sends + Len(b) <= MaxPosts
         /\ tasks' = create_tasks(UrlOf(stage, b), b)
    /\ pc' = "gather"
    /\ UNCHANGED <<settings, stage, responses, errors_dir, handed, sends>>
    /\ AppFrame

\* A task gets to run: client.post sends the request.
TaskStart(i) ==
    /\ pc = "gather"
    /\ tasks[i].state = "created"
    /\ tasks' = [tasks EXCEPT ![i].state = "inflight", ![i].sent = @ + 1]
    /\ sends' = sends + 1
    /\ UNCHANGED <<settings, stage, pc, responses, errors_dir, handed>>
    /\ AppFrame

\* The variant that treats an error status as an exception (as if
\* raise_for_status were called in the task).
TaskRespondRaiseForStatus(i) ==
    /\ AppFrame
    /\ pc = "gather"
    /\ tasks[i].state = "inflight"
    /\ \E st \in Statuses :
         tasks' = IF is_error(st)
                  THEN Abort([tasks EXCEPT ![i].state = "raised", ![i].status = st])
                  ELSE [tasks EXCEPT ![i].state = "responded", ![i].status = st]
    /\ UNCHANGED <<settings, stage, pc, responses, errors_dir, handed, sends>>

\* The response arrives: httpx returns it whatever its status.
TaskRespond(i) ==
    /\ pc = "gather"
    /\ tasks[i].state = "inflight"
    /\ \E st \in Statuses :
         tasks' = [tasks EXCEPT ![i].state = "responded", ![i].status = st]
    /\ UNCHANGED <<settings, stage, pc, responses, errors_dir, handed, sends>>
    /\ AppFrame

\* client.post raises (a network error): the TaskGroup aborts its other tasks.
TaskRaise(i) ==
    /\ pc = "gather"
    /\ tasks[i].state = "inflight"
    /\ tasks' = Abort([tasks EXCEPT ![i].state = "raised"])
    /\ UNCHANGED <<settings, stage, pc, responses, errors_dir, handed, sends>>
    /\ AppFrame

\* The variant that returns with the first response (as asyncio.wait with
\* FIRST_COMPLETED would), the other requests still in flight.
FinishBatchFirstCompleted ==
    /\ AppFrame
    /\ pc = "gather"
    /\ \E i \in DOMAIN tasks : tasks[i].state = "responded"
    /\ \A i \in DOMAIN tasks : tasks[i].state # "raised"
    /\ responses' = Results(tasks)
    /\ errors_dir' = _write_errors(errors_dir, stage, Results(tasks))
    /\ handed' = handed \cup
         {[stage |-> stage, pair |-> p] : p \in
            {q \in Range(Results(tasks)) : is_error(q.status)}}
    /\ stage' = stage + 1
    /\ pc' = "idle"
    /\ tasks' = <<>>
    /\ UNCHANGED <<settings, sends>>

\* Every task is done and none raised: _post_many returns, _write_errors
\* runs, and _update_cellnoor_api goes on to the next stage.
FinishBatch ==
    /\ pc = "gather"
    /\ \A i \in DOMAIN tasks : tasks[i].state = "responded"
    /\ responses' = Results(tasks)
    /\ errors_dir' = _write_errors(errors_dir, stage, Results(tasks))
    /\ handed' = handed \cup
         {[stage |-> stage, pair |-> p] : p \in
            {q \in Range(Results(tasks)) : is_error(q.status)}}
    /\ stage' = NextStage(stage)
    /\ pc' = "idle"
    /\ tasks' = <<>>
    /\ UNCHANGED <<settings, sends>>
    /\ AppFrame

\* Every task is done and one raised: the TaskGroup raises an
\* ExceptionGroup, which leaves _post_many and _update_cellnoor_api.
BatchRaises ==
    /\ pc = "gather"
    /\ \A i \in DOMAIN tasks : Done(tasks[i])
    /\ \E i \in DOMAIN tasks : tasks[i].state = "raised"
    /\ pc' = "raised"
    /\ UNCHANGED <<settings, stage, tasks, responses, errors_dir, handed, sends>>
    /\ AppFrame

\* The last stage is behind: _update_cellnoor_api returns.
Finish ==
    /\ pc = "idle"
    /\ stage = Len(Stages) + 1
    /\ pc' = "done"
    /\ UNCHANGED <<settings, stage, tasks, responses, errors_dir, handed, sends>>
    /\ AppFrame

----------------------------------------------------------------------------
(* main.py: the institutions run.                                           *)

\* A UUID as the CSV spells it: its value, in lower or upper case hex.
UuidStrings == [u : 1..MaxUuid, upper : BOOLEAN]

\* uuid.UUID(s): the spelling's case is gone.
UUID(s) == s.u

InstitutionNames == {"Yale University", "Jackson Laboratory"}

InstitutionRows == [id : UuidStrings, name : InstitutionNames]

\* scamplepy's NewInstitution, compared by value.
NewInstitution(id, name) == [id |-> id, name |-> name]

\* NewInstitution.to_json_string: the UUID is written in lower case.
to_json_string(inst) ==
    [id |-> [u |-> inst.id, upper |-> FALSE], name |-> inst.name]

\* NewInstitution.from_json_string
from_json_string(json) == NewInstitution(UUID(json.id), json.name)

\* The variant that reads nothing.
read_from_cache_main_nothing(files) == {}

\* read_from_cache of main.py: every file of the subdirectory, decoded.
read_from_cache_main(files) ==
    {from_json_string(files[f]) : f \in DOMAIN files}

\* The variant a comparison by identity would give: nothing is ever "in" the cache.
parse_institutions_no_filter(rows, already_inserted_institutions) ==
    [i \in DOMAIN rows |-> NewInstitution(UUID(rows[i].id), rows[i].name)]

parse_institutions(rows, already_inserted_institutions) ==
    LET new_institutions ==
            [i \in DOMAIN rows |-> NewInstitution(UUID(rows[i].id), rows[i].name)]
        keep == {i \in DOMAIN rows :
                    new_institutions[i] \notin already_inserted_institutions}
    IN  FilterIdx(new_institutions, keep, 1)

\* write_to_cache of main.py: the files are written in order until one
\* exists already, which raises ValueError.
RECURSIVE write_to_cache_main(_, _)
write_to_cache_main(files, data) ==
    IF data = <<>> THEN [files |-> files, raised |-> FALSE]
    ELSE LET filename == Head(data)[1]
             datum == Head(data)[2]
         IN  IF filename \in DOMAIN files
             THEN [files |-> files, raised |-> TRUE]
             ELSE write_to_cache_main(
                    [f \in DOMAIN files \cup {filename} |->
                        IF f = filename THEN to_json_string(datum) ELSE files[f]],
                    Tail(data))

MDone(t) == t.state \in {"returned", "raised", "cancelled"}

MAbort(ts) ==
    [i \in DOMAIN ts |->
        IF MDone(ts[i]) THEN ts[i] ELSE [ts[i] EXCEPT !.state = "cancelled"]]

\* main up to the TaskGroup of send_institutions: the cache is read (which
\* raises when the subdirectory is absent), the CSV is parsed, one task is
\* created per new institution.
StartRun ==
    /\ mpc = "start"
    /\ IF ~cache_exists
       THEN /\ mpc' = "raised"
            /\ UNCHANGED <<mtasks, institutions>>
       ELSE LET insts == parse_institutions(csv, read_from_cache_main(cache))
            IN  /\ institutions' = insts
                /\ mtasks' = [i \in DOMAIN insts |->
                                [new |-> insts[i], state |-> "created"]]
                /\ mpc' = "gather"
    /\ UNCHANGED <<csv, cache_exists, cache, remote, run, submitted, accepted,
                   cleanRun>>
    /\ MainFrame

\* A task gets to run: client.create_institution sends the request.
CreateStart(i) ==
    /\ mpc = "gather"
    /\ mtasks[i].state = "created"
    /\ mtasks' = [mtasks EXCEPT ![i].state = "inflight"]
    /\ submitted' = submitted \cup {mtasks[i].new}
    /\ UNCHANGED <<csv, cache_exists, cache, remote, run, mpc, institutions,
                   accepted, cleanRun>>
    /\ MainFrame

\* The remote accepts the request and returns the institution it created.
CreateReturn(i) ==
    /\ mpc = "gather"
    /\ mtasks[i].state = "inflight"
    /\ mtasks' = [mtasks EXCEPT ![i].state = "returned"]
    /\ remote' = remote \cup {mtasks[i].new}
    /\ UNCHANGED <<csv, cache_exists, cache, run, mpc, institutions, submitted,
                   accepted, cleanRun>>
    /\ MainFrame

\* The request fails: client.create_institution raises, and the TaskGroup
\* aborts its other tasks.
CreateRaise(i) ==
    /\ mpc = "gather"
    /\ mtasks[i].state = "inflight"
    /\ mtasks' = MAbort([mtasks EXCEPT ![i].state = "raised"])
    /\ UNCHANGED <<csv, cache_exists, cache, remote, run, mpc, institutions,
                   submitted, accepted, cleanRun>>
    /\ MainFrame

\* The TaskGroup ends with a task that raised: the ExceptionGroup leaves
\* send_institutions and main, write_institutions_to_cache is not called.
SendRaises ==
    /\ mpc = "gather"
    /\ \A i \in DOMAIN mtasks : MDone(mtasks[i])
    /\ \E i \in DOMAIN mtasks : mtasks[i].state = "raised"
    /\ mpc' = "raised"
    /\ UNCHANGED <<csv, cache_exists, cache, remote, run, mtasks, institutions,
                   submitted, accepted, cleanRun>>
    /\ MainFrame

\* Every task returned: send_institutions returns its pairs and
\* write_institutions_to_cache stores each sent institution under the
\* returned id.
write_institutions_to_cache ==
    /\ mpc = "gather"
    /\ \A i \in DOMAIN mtasks : mtasks[i].state = "returned"
    /\ LET data == [i \in DOMAIN mtasks |-> <<mtasks[i].new.id, mtasks[i].new>>]
           w == write_to_cache_main(cache, data)
       IN  /\ cache' = w.files
           /\ mpc' = IF w.raised THEN "raised" ELSE "done"
           /\ cleanRun' = IF ~w.raised /\ cleanRun = 0 THEN run ELSE cleanRun
    /\ UNCHANGED <<csv, cache_exists, remote, run, mtasks, institutions,
                   submitted, accepted>>
    /\ MainFrame

\* The program is run again over the same CSV and cache directory.
RunAgain ==
    /\ mpc \in {"raised", "done"}
    /\ run < MaxRuns
    /\ run' = run + 1
    /\ mpc' = "start"
    /\ mtasks' = <<>>
    /\ institutions' = <<>>
    /\ submitted' = {}
    /\ accepted' = remote
    /\ UNCHANGED <<csv, cache_exists, cache, remote, cleanRun>>
    /\ MainFrame

----------------------------------------------------------------------------
(* utils.py, models/projects.py, app.py: the projects stage.                *)

\* A string is a sequence of characters; these are the project names a CSV
\* may carry: plain, lower case, with leading or trailing whitespace, empty.
ProjectNames == {<<"A">>, <<"a">>, <<" ", "A">>, <<"A", " ">>, <<"B">>, <<>>}

\* str.strip
RECURSIVE lstrip(_)
lstrip(s) == IF s # <<>> /\ Head(s) = " " THEN lstrip(Tail(s)) ELSE s

RECURSIVE rstrip(_)
rstrip(s) ==
    IF s # <<>> /\ s[Len(s)] = " " THEN rstrip(SubSeq(s, 1, Len(s) - 1)) ELSE s

strip(s) == rstrip(lstrip(s))

\* str.lower
lower(s) == [i \in DOMAIN s |-> IF s[i] = "A" THEN "a"
                                ELSE IF s[i] = "B" THEN "b" ELSE s[i]]

\* The rows csv.DictReader yields with QUOTE_NOTNULL: an unquoted empty field
\* is None.
ProjectRows == [name : ProjectNames \cup {None}]

\* The values of CsvSpec.empty_fn: the default and a test for a blank name.
EmptyFns == {"lambda row: False", "lambda row: row['name'] == ''"}

\* eval(empty_fn)(row)
parsed_empty_fn(fn, row) ==
    IF fn = "lambda row: False" THEN FALSE ELSE row.name = <<>>

\* The variant without the test of the required keys.
row_is_empty_by_fn_only(row, required_keys, fn) ==
    parsed_empty_fn(fn, row)

row_is_empty(row, required_keys, fn) ==
    LET is_empty1 == \A key \in required_keys : row[key] = None
        is_empty2 == parsed_empty_fn(fn, row)
    IN  is_empty1 \/ is_empty2

\* _parse_row of models/projects.py
_parse_row(row, fn) ==
    IF row_is_empty(row, {"name"}, fn) THEN NoPayload
    ELSE [name |-> row.name,
          started_at |-> "2014-01-01T00:00:00+00:00",
          ended_at |-> "2026-12-31T23:59:59+00:00"]

\* property_id_map's assertion: the property is unique among the records.
property_is_unique(records) ==
    \A i, j \in DOMAIN records : records[i].name = records[j].name => i = j

\* The keys of get_project_name_id_map: the names and their lower-case forms.
get_project_name_id_map(labs) ==
    {labs[i].name : i \in DOMAIN labs} \cup {lower(labs[i].name) : i \in DOMAIN labs}

\* The variant that compares the name as it will be posted (stripped).
csv_to_new_projects_stripped(data, fn, pre_existing) ==
    LET parsed == [i \in DOMAIN data |-> _parse_row(data[i], fn)]
        keep == {i \in DOMAIN data :
                   ~(parsed[i] = NoPayload \/ strip(data[i].name) \in pre_existing)}
    IN  FilterIdx(parsed, keep, 1)

csv_to_new_projects(data, fn, pre_existing) ==
    LET parsed == [i \in DOMAIN data |-> _parse_row(data[i], fn)]
        keep == {i \in DOMAIN data :
                   ~(parsed[i] = NoPayload \/ parsed[i].name \in pre_existing)}
    IN  FilterIdx(parsed, keep, 1)

\* strip_str_values on a project payload: every string value is stripped
\* (the two timestamps have no surrounding whitespace).
strip_project(d) == [d EXCEPT !.name = strip(d.name)]

\* The outcomes of the tasks of one TaskGroup: a task is cancelled only
\* when another one raised.
Outcomes(n) ==
    {o \in [1..n -> {"created", "rejected", "raised", "cancelled"}] :
        (\E i \in 1..n : o[i] = "cancelled") => (\E i \in 1..n : o[i] = "raised")}

\* read_csv and csv_to_new_projects: the existing projects are fetched
\* (property_id_map asserts their names are unique) and the rows filtered.
ProjectsParse ==
    /\ ppc = "start"
    /\ IF ~property_is_unique(premote)
       THEN /\ ppc' = "raised"
            /\ UNCHANGED <<pre_existing_projects, new_projects>>
       ELSE /\ pre_existing_projects' = get_project_name_id_map(premote)
            /\ new_projects' = csv_to_new_projects(
                                  pcsv, empty_fn, get_project_name_id_map(premote))
            /\ ppc' = "post"
    /\ UNCHANGED <<pcsv, empty_fn, premote, prun, pclean>>
    /\ ProjectsFrame

\* _post_many and _write_errors on the new projects: the remote stores the
\* stripped body of every request it accepts; a request that raises makes
\* the TaskGroup, and with it the run, raise.
ProjectsPost ==
    /\ ppc = "post"
    /\ \E o \in Outcomes(Len(new_projects)) :
         LET stored == {i \in DOMAIN new_projects : o[i] = "created"}
             bodies == [i \in DOMAIN new_projects |-> strip_project(new_projects[i])]
         IN  /\ premote' = premote \o
                   [i \in 1..Len(FilterIdx(bodies, stored, 1)) |->
                       [name |-> FilterIdx(bodies, stored, 1)[i].name]]
             /\ ppc' = IF \E i \in DOMAIN o : o[i] = "raised"
                       THEN "raised" ELSE "done"
             /\ pclean' = (pclean /\ \A i \in DOMAIN o : o[i] = "created")
    /\ UNCHANGED <<pcsv, empty_fn, prun, pre_existing_projects, new_projects>>
    /\ ProjectsFrame

\* The program is run again over the same CSV.
ProjectsRunAgain ==
    /\ ppc \in {"raised", "done"}
    /\ prun < MaxRuns
    /\ prun' = prun + 1
    /\ ppc' = "start"
    /\ pre_existing_projects' = {}
    /\ new_projects' = <<>>
    /\ UNCHANGED <<pcsv, empty_fn, premote, pclean>>
    /\ ProjectsFrame

----------------------------------------------------------------------------
(* models/sequencing_runs.py: csv_to_sequencing_runs.                       *)

\* A date column holds None (0) or a date string, numbered in the order in
\* which the strings sort.
NoDate == 0
DateValues == 0..MaxDate

\* The place of str(value) among the sort keys: "None" sorts after a date,
\* which begins with a digit.
SortRank(d) == IF d = NoDate THEN MaxDate + 1 ELSE d

SeqRows == [sequenced_date : DateValues, completed_date : {NoDate, 1},
            ilab_project_id : {None, <<"i", "1">>},
            sc_id : {<<"L", "1">>, <<"L", "9">>}]

\* The libraries the remote holds: readable id -> id.
Libraries == {<<"L", "1">>}

sorting_and_grouping_key(d) == <<SortRank(d.sequenced_date), SortRank(d.completed_date)>>

KeyLess(a, b) == a[1] < b[1] \/ (a[1] = b[1] /\ a[2] < b[2])

\* The distinct keys of a set, in ascending order.
RECURSIVE SortedKeys(_)
SortedKeys(ks) ==
    IF ks = {} THEN <<>>
    ELSE LET m == CHOOSE k \in ks : \A o \in ks \ {k} : KeyLess(k, o)
         IN  <<m>> \o SortedKeys(ks \ {m})

\* _group_rows: the rows with an ilab_project_id, sorted by the key (the
\* sort is stable) and grouped by it.
_group_rows(data) ==
    LET filtered == {i \in DOMAIN data : data[i].ilab_project_id # None}
        keys == SortedKeys({sorting_and_grouping_key(data[i]) : i \in filtered})
    IN  [g \in DOMAIN keys |->
            FilterIdx(data,
                      {i \in filtered : sorting_and_grouping_key(data[i]) = keys[g]},
                      1)]

\* _parse_group: None when a row of the group lacks a date; the rows of a
\* group share their dates, so the ValueError branch is never taken.
_parse_group(sequencing_run_readable_id, rows) ==
    IF \E i \in DOMAIN rows :
          rows[i].sequenced_date = NoDate \/ rows[i].completed_date = NoDate
    THEN NoPayload
    ELSE [readable_id |-> sequencing_run_readable_id,
          begun_at |-> rows[1].sequenced_date,
          finished_at |-> rows[1].completed_date,
          ilab_request_ids |-> [i \in DOMAIN rows |-> rows[i].ilab_project_id],
          libraries |-> FilterIdx([i \in DOMAIN rows |-> rows[i].sc_id],
                                  {i \in DOMAIN rows : rows[i].sc_id \in Libraries},
                                  1)]

\* _yield_sequencing_runs: the groups are numbered on from the last run.
_yield_sequencing_runs(last_run_readable_id, grouped_rows) ==
    [g \in DOMAIN grouped_rows |->
        _parse_group(last_run_readable_id + g, grouped_rows[g])]

\* The id of the last pre-existing run: the greatest, or "0".
last_run_id(pre_existing) ==
    IF pre_existing = {} THEN 0
    ELSE CHOOSE m \in pre_existing : \A o \in pre_existing : o <= m

csv_to_sequencing_runs(data, pre_existing_sequencing_runs) ==
    LET runs == _yield_sequencing_runs(last_run_id(pre_existing_sequencing_runs),
                                       _group_rows(data))
        keep == {g \in DOMAIN runs :
                   ~(runs[g] = NoPayload
                     \/ runs[g].readable_id \in pre_existing_sequencing_runs)}
    IN  FilterIdx(runs, keep, 1)

\* csv_to_sequencing_runs on the CSV and the runs the remote holds now.
SeqParse ==
    /\ spc = "start"
    /\ sequencing_runs' = csv_to_sequencing_runs(scsv, sremote)
    /\ spc' = "parsed"
    /\ UNCHANGED <<scsv, sremote, srun, sclean>>
    /\ SeqFrame

\* The yielded runs are submitted; the remote creates some or all of them.
SeqSubmit ==
    /\ spc = "parsed"
    /\ \E created \in SUBSET DOMAIN sequencing_runs :
         /\ sremote' = sremote \cup {sequencing_runs[g].readable_id : g \in created}
         /\ sclean' = (sclean /\ created = DOMAIN sequencing_runs)
    /\ spc' = "done"
    /\ UNCHANGED <<scsv, srun, sequencing_runs>>
    /\ SeqFrame

\* The program is run again over the same CSV.
SeqRunAgain ==
    /\ spc = "done"
    /\ srun < MaxRuns
    /\ srun' = srun + 1
    /\ spc' = "start"
    /\ sequencing_runs' = <<>>
    /\ UNCHANGED <<scsv, sremote, sclean>>
    /\ SeqFrame

----------------------------------------------------------------------------
(* models/specimens.py: csvs_to_new_specimens and write_specimens_to_cache. *)

\* The classes read_from_cache is tried with, in the order of the code.
SpecimenTypes == <<"NewFixedBlock", "NewFrozenBlock", "NewCryopreservedTissue",
                   "NewFixedTissue", "NewFrozenTissue",
                   "NewCryopreservedSuspension", "NewFixedOrFreshSuspension",
                   "NewFrozenSuspension">>

necessary_keys == {"name", "date_received", "submitter_email", "lab_name", "species"}

\* The (type, preservation_method) pairs of the CSVs of the model: a frozen
\* block, a frozen tissue, a cryopreserved suspension, and a pair the match
\* statement has no case for.
TypeAndPreservation ==
    {<<<<"Block">>, <<"Frozen">>>>, <<<<"Tissue">>, <<"Frozen">>>>,
     <<<<"Cell Suspension">>, <<"Cryopreserved">>>>,
     <<<<"Tissue">>, <<"Fresh">>>>}

\* A row with all, one or none of its necessary fields missing.
SpecimenRow(id, fill, tp) ==
    [readable_id |-> id,
     name |-> IF fill = "full" THEN <<"n">> ELSE None,
     date_received |-> IF fill = "empty" THEN None ELSE <<"2024-01-02">>,
     submitter_email |-> IF fill = "empty" THEN None ELSE <<"a@yale.edu">>,
     lab_name |-> IF fill = "empty" THEN None ELSE <<"Lab A">>,
     species |-> IF fill = "empty" THEN None ELSE <<"Homo sapiens">>,
     type |-> tp[1],
     preservation_method |-> tp[2]]

SpecimenRows ==
    {SpecimenRow(id, fill, tp) :
        id \in {<<"S1">>, <<"S2">>}, fill \in {"full", "partial", "empty"},
        tp \in TypeAndPreservation}

Suspensions == {<<"Cell Suspension">>, <<"Nucleus Suspension">>}

Raises == "raises"

\* The match statement of _parse_specimen_row: the class the row is built
\* with, or an exception (KeyError of a lookup table, ValueError).
SpecimenClass(ty, preservation) ==
    CASE ty = <<"Block">> ->
           (CASE preservation = <<"Formaldehyde-derivative fixed">> -> "NewFixedBlock"
              [] preservation = <<"Formaldehyde-derivative fixed & frozen">> -> "NewFrozenBlock"
              [] preservation = <<"Frozen">> -> "NewFrozenBlock"
              [] OTHER -> Raises)
      [] ty = <<"Tissue">> /\ preservation = <<"Cryopreserved">> -> "NewCryopreservedTissue"
      [] ty = <<"Tissue">> /\ preservation \in {<<"DSP-fixed">>, <<"Scale DSP-Fixed">>} ->
           "NewFixedTissue"
      [] ty = <<"Tissue">> /\ preservation = <<"Frozen">> -> "NewFrozenTissue"
      [] ty \in Suspensions /\ preservation = <<"Cryopreserved">> -> "NewCryopreservedSuspension"
      [] ty \in Suspensions /\ preservation = None -> "NewFixedOrFreshSuspension"
      [] ty \in Suspensions /\ preservation = <<"Frozen">> -> "NewFrozenSuspension"
      [] ty \in Suspensions
           /\ preservation \in {<<"Formaldehyde-derivative fixed">>, <<"DSP-fixed">>,
                                <<"Scale DSP-Fixed">>, <<"Fresh">>} ->
           "NewFixedOrFreshSuspension"
      [] OTHER -> Raises

\* _parse_specimen_row: None for an empty row, an exception for a partially
\* empty one or one of an unexpected kind, else the specimen.
_parse_specimen_row(row) ==
    IF \A key \in necessary_keys : row[key] = None THEN NoPayload
    ELSE IF \E key \in necessary_keys : row[key] = None THEN [raises |-> TRUE]
    ELSE LET klass == SpecimenClass(row.type, row.preservation_method)
         IN  IF klass = Raises THEN [raises |-> TRUE]
             ELSE [class |-> klass, readable_id |-> row.readable_id,
                   name |-> row.name]

\* to_json_string of a specimen, and ty.from_json_string of a file: a file
\* written by the class itself decodes to the specimen written.  For a file
\* written by another class the decoder of scamplepy either raises (strict)
\* or builds an object of the class asked for.
specimen_to_json(s) == [written_by |-> s.class, readable_id |-> s.readable_id,
                        name |-> s.name]

specimen_from_json(ty, json) ==
    [class |-> ty, readable_id |-> json.readable_id, name |-> json.name]

\* read_from_cache(cache_dir, "specimens", ty) inside the try of
\* csvs_to_new_specimens: the list comprehension decodes every file of the
\* subdirectory with the one class, so one exception loses the whole list.
read_specimens_of_type(files, ty, strict) ==
    IF strict /\ \E f \in DOMAIN files : files[f].written_by # ty
    THEN {}
    ELSE {specimen_from_json(ty, files[f]) : f \in DOMAIN files}

cached_specimens(files, strict) ==
    UNION {read_specimens_of_type(files, SpecimenTypes[k], strict) :
             k \in DOMAIN SpecimenTypes}

\* The variant without the try around each row: the loop ends at the first
\* row whose parsing raises.
new_specimens_until_error(rows, cached) ==
    LET parsed == [i \in DOMAIN rows |-> _parse_specimen_row(rows[i])]
        keep == {i \in DOMAIN rows :
                   /\ parsed[i] # NoPayload
                   /\ parsed[i] \notin cached
                   /\ \A j \in 1..i : parsed[j] # [raises |-> TRUE]}
    IN  FilterIdx(parsed, keep, 1)

\* The rows of the CSV that parse and are not cached, in order; a row whose
\* parsing raises is logged and dropped.
new_specimens(rows, cached) ==
    LET parsed == [i \in DOMAIN rows |-> _parse_specimen_row(rows[i])]
        keep == {i \in DOMAIN rows :
                   /\ parsed[i] # NoPayload
                   /\ parsed[i] # [raises |-> TRUE]
                   /\ parsed[i] \notin cached}
    IN  FilterIdx(parsed, keep, 1)

\* The assertion at the end of csvs_to_new_specimens.
readable_ids_unique(ss) ==
    \A i, j \in DOMAIN ss : ss[i].readable_id = ss[j].readable_id => i = j

\* csvs_to_new_specimens
SpecimensParse ==
    /\ xpc = "start"
    /\ \E strict \in BOOLEAN :
         LET new == new_specimens(specimen_csv,
                                  cached_specimens(specimens_cache, strict))
         IN  IF readable_ids_unique(new)
             THEN specimens' = new /\ xpc' = "parsed"
             ELSE specimens' = <<>> /\ xpc' = "raised"
    /\ UNCHANGED <<specimen_csv, specimens_cache, xrun, next_id>>
    /\ SpecimensFrame

\* The specimens are submitted and write_specimens_to_cache stores the
\* request of every pair that has a response, under the id the remote
\* assigned.
write_specimens_to_cache ==
    /\ xpc = "parsed"
    /\ \E responded \in SUBSET DOMAIN specimens :
         LET stored == FilterIdx(specimens, responded, 1)
             names == {next_id + k : k \in DOMAIN stored}
         IN  /\ specimens_cache' =
                   [f \in DOMAIN specimens_cache \cup names |->
                       IF f \in DOMAIN specimens_cache THEN specimens_cache[f]
                       ELSE specimen_to_json(stored[f - next_id])]
             /\ next_id' = next_id + Len(stored)
    /\ xpc' = "done"
    /\ UNCHANGED <<specimen_csv, xrun, specimens>>
    /\ SpecimensFrame

\* The program is run again over the same CSV and cache directory.
SpecimensRunAgain ==
    /\ xpc \in {"raised", "done"}
    /\ xrun < MaxRuns
    /\ xrun' = xrun + 1
    /\ xpc' = "start"
    /\ specimens' = <<>>
    /\ UNCHANGED <<specimen_csv, specimens_cache, next_id>>
    /\ SpecimensFrame

----------------------------------------------------------------------------
(* models/specimen_measurements.py: csv_to_new_specimen_measurements.       *)

\* A Python value that is a datetime object, and one that is a str.
Datetime(v) == [type |-> "datetime", v |-> v]
Str(v) == [type |-> "str", v |-> v]

\* datetime.isoformat of 9 am east coast (13:00 UTC) of a date.
isoformat(dt) == Str(<<dt.v, "T13:00:00+00:00">>)

\* date_str_to_eastcoast_9am
date_str_to_eastcoast_9am(date_str) == Datetime(date_str)

\* A key that a dict does not hold.
Absent == <<"<absent>">>

\* The specimens and the people the remote holds.
RemoteSpecimens ==
    <<[readable_id |-> <<"S1">>, id |-> 1,
       received_at |-> Str(<<<<"2024-01-01">>, "T13:00:00+00:00">>)]>>

RemotePeople == <<[email |-> <<"a@yale.edu">>, id |-> <<"person-1">>]>>

\* str_to_float, in hundredths: a percentage is divided by 100.
str_to_float(s) ==
    CASE s = <<"7.5">> -> 750
      [] s = <<"85%">> -> 85
      [] OTHER -> 0

MeasurementRows ==
    [specimen_readable_id : {None, <<"S1">>, <<"S9">>},
     measured_by : {None, <<"a@yale.edu">>, <<"b@yale.edu">>},
     date_measured : {None, <<"2024-01-02">>},
     rin : {None, <<" ">>, <<"7.5">>},
     dv200 : {None, <<"85%">>},
     instrument_name : {<<"TapeStation">>}]

\* dict.get on the maps built from the remote's answers.
specimen_of(readable_id) ==
    IF \E i \in DOMAIN RemoteSpecimens : RemoteSpecimens[i].readable_id = readable_id
    THEN RemoteSpecimens[CHOOSE i \in DOMAIN RemoteSpecimens :
                            RemoteSpecimens[i].readable_id = readable_id]
    ELSE NoPayload

person_of(email) ==
    IF \E i \in DOMAIN RemotePeople : RemotePeople[i].email = email
    THEN RemotePeople[CHOOSE i \in DOMAIN RemotePeople :
                         RemotePeople[i].email = email].id
    ELSE None

\* row_is_empty of utils.py with the default empty_fn.
measurement_row_is_empty(row) ==
    \A key \in {"specimen_readable_id", "measured_by"} : row[key] = None

\* One pass of the loop of _parse_specimen_measurement_row: the measurement
\* of one column, or nothing when the column is empty or a blank.
column_measurement(row, specimen, column_name, measurement_quantity) ==
    LET measured_by == person_of(row.measured_by)
        measurement ==
            [instrument_name |-> row.instrument_name,
             measured_by |-> IF measured_by # None THEN measured_by ELSE Absent,
             measured_at |-> IF row.date_measured \notin {None, <<>>}
                             THEN date_str_to_eastcoast_9am(row.date_measured)
                             ELSE specimen.received_at,
             data |-> [quantity |-> measurement_quantity,
                       value |-> str_to_float(row[column_name])]]
    IN  IF row[column_name] \notin {None, <<>>, <<" ">>}
        THEN <<measurement>> ELSE <<>>

\* _parse_specimen_measurement_row: None, or (specimen id, measurements).
_parse_specimen_measurement_row(row) ==
    IF measurement_row_is_empty(row) THEN NoPayload
    ELSE LET specimen == specimen_of(row.specimen_readable_id)
         IN  IF specimen = NoPayload THEN NoPayload
             ELSE LET measurements ==
                          column_measurement(row, specimen, "rin", "RIN")
                          \o column_measurement(row, specimen, "dv200", "DV200")
                  IN  IF measurements = <<>> THEN NoPayload
                      ELSE [specimen_id |-> specimen.id,
                            measurements |-> measurements]

\* _strip of utils.py on the values of a measurement: a str is stripped (the
\* strings of the model carry no surrounding whitespace), a datetime becomes
\* its isoformat.
_strip(value) ==
    IF value.type = "datetime" THEN isoformat(value) ELSE value

\* strip_str_values on a measurement
strip_measurement(m) == [m EXCEPT !.measured_at = _strip(m.measured_at)]

\* The pre-existing measurements of every specimen, their id deleted.
pre_existing_measurements(held) == {h.body : h \in held}

\* The (specimen id, measurement) pairs of the rows, flattened in order.
RECURSIVE flatten_measurements(_)
flatten_measurements(parsed) ==
    IF parsed = <<>> THEN <<>>
    ELSE LET m == Head(parsed)
         IN  (IF m = NoPayload THEN <<>>
              ELSE [k \in DOMAIN m.measurements |->
                       <<m.specimen_id, m.measurements[k]>>])
             \o flatten_measurements(Tail(parsed))

csv_to_new_specimen_measurements(data, held) ==
    LET all == flatten_measurements(
                   [i \in DOMAIN data |-> _parse_specimen_measurement_row(data[i])])
        keep == {k \in DOMAIN all : all[k][2] \notin pre_existing_measurements(held)}
    IN  FilterIdx(all, keep, 1)

\* read_csv and csv_to_new_specimen_measurements
MeasurementsParse ==
    /\ mmpc = "start"
    /\ new_specimen_measurements' =
          csv_to_new_specimen_measurements(measurement_csv, remote_measurements)
    /\ mmpc' = "parsed"
    /\ UNCHANGED <<measurement_csv, remote_measurements, mrun>>
    /\ MeasurementsFrame

\* _post_many on the measurements, each to the URL of its specimen: the
\* remote stores the stripped body of every request it accepts.
MeasurementsPost ==
    /\ mmpc = "parsed"
    /\ \E o \in Outcomes(Len(new_specimen_measurements)) :
         /\ remote_measurements' = remote_measurements \cup
               {[specimen_id |-> new_specimen_measurements[k][1],
                 body |-> strip_measurement(new_specimen_measurements[k][2])] :
                   k \in {i \in DOMAIN o : o[i] = "created"}}
         /\ mmpc' = IF \E i \in DOMAIN o : o[i] = "raised" THEN "raised" ELSE "done"
    /\ UNCHANGED <<measurement_csv, mrun, new_specimen_measurements>>
    /\ MeasurementsFrame

\* The program is run again over the same CSV.
MeasurementsRunAgain ==
    /\ mmpc \in {"raised", "done"}
    /\ mrun < MaxRuns
    /\ mrun' = mrun + 1
    /\ mmpc' = "start"
    /\ new_specimen_measurements' = <<>>
    /\ UNCHANGED <<measurement_csv, remote_measurements>>
    /\ MeasurementsFrame

----------------------------------------------------------------------------
(* app.py 208-250: csv_to_new_suspensions and                               *)
(* csv_to_suspension_measurements.                                          *)

\* A KeyError raised by a lookup, and what a function that may raise
\* hands back: the exception, or its return value.
KeyError == [raises |-> "KeyError"]
Raised == [raised |-> TRUE, value |-> <<>>]
Returned(value) == [raised |-> FALSE, value |-> value]

SuspensionIds == {<<"X1">>, <<"X2">>}

\* Of the fourteen measurement columns, one measured by the customer and
\* one measured by the preparer.
SuspensionRows ==
    [readable_id : SuspensionIds,
     parent_specimen_readable_id : {<<"S1">>, <<"S9">>},
     preparer_1_email : {<<"a@yale.edu">>, <<"b@yale.edu">>},
     customer_volume : {None, <<"7.5">>},
     scbl_volume : {None, <<"7.5">>}]

\* The suspension the remote answers with for a readable id.
remote_suspension(readable_id) ==
    [id |-> <<"id-of">> \o readable_id,
     readable_id |-> readable_id,
     created_at |-> <<"2024-02-01", "T13:00:00+00:00">>,
     parent_specimen |-> [received_at |-> RemoteSpecimens[1].received_at.v,
                          submitted_by |-> <<"person-0">>]]

\* _parse_suspension_row of models/suspensions.py: None for a row whose
\* parent specimen the remote does not hold, KeyError for a preparer it does
\* not hold.
_parse_suspension_row(row) ==
    IF specimen_of(row.parent_specimen_readable_id) = NoPayload THEN NoPayload
    ELSE IF person_of(row.preparer_1_email) = None THEN KeyError
    ELSE [readable_id |-> row.readable_id,
          parent_specimen_id |-> specimen_of(row.parent_specimen_readable_id).id,
          preparer_ids |-> <<person_of(row.preparer_1_email)>>]

csv_to_new_suspensions(data, pre_existing_suspensions) ==
    LET parsed == [i \in DOMAIN data |-> _parse_suspension_row(data[i])]
        keep == {i \in DOMAIN parsed :
                    /\ parsed[i] # NoPayload
                    /\ parsed[i] # KeyError
                    /\ parsed[i].readable_id \notin pre_existing_suspensions}
    IN  IF \E i \in DOMAIN parsed : parsed[i] = KeyError THEN Raised
        ELSE Returned(FilterIdx(parsed, keep, 1))

\* _parse_volume with the keys the loop over volumes adds.
_parse_volume(row, value_key) ==
    IF row[value_key] \in {None, <<>>} THEN NoPayload
    ELSE [quantity |-> "volume", value |-> str_to_float(row[value_key]),
          post_hybridization |-> FALSE, unit |-> "microliter"]

\* _extract_measurements_from_row: KeyError for a preparer the remote does
\* not hold.
_extract_measurements_from_row(row, suspension) ==
    LET customer_measured_at == suspension.parent_specimen.received_at
        first_scbl_measurement_time == suspension.created_at
        measured_by_for_customer_measurement == suspension.parent_specimen.submitted_by
        measured_by_for_scbl_measurement == person_of(row.preparer_1_email)
        customer == _parse_volume(row, "customer_volume")
        scbl == _parse_volume(row, "scbl_volume")
    IN  IF measured_by_for_scbl_measurement = None THEN Raised
        ELSE Returned(
             (IF customer = NoPayload THEN <<>>
              ELSE <<[measured_by |-> measured_by_for_customer_measurement,
                      measured_at |-> customer_measured_at,
                      data |-> customer]>>)
             \o (IF scbl = NoPayload THEN <<>>
                 ELSE <<[measured_by |-> measured_by_for_scbl_measurement,
                         measured_at |-> first_scbl_measurement_time,
                         data |-> scbl]>>))

\* rows_by_readable_id: the last row of a readable id, KeyError without one.
row_by_readable_id(data, readable_id) ==
    LET at == {i \in DOMAIN data : data[i].readable_id = readable_id}
    IN  IF at = {} THEN KeyError
        ELSE data[CHOOSE i \in at : \A j \in at : j <= i]

\* The suspensions the remote holds, in the order of its answer.
SuspensionOrder(held) ==
    FilterIdx(<<<<"X1">>, <<"X2">>>>, {i \in 1..2 : <<<<"X1">>, <<"X2">>>>[i] \in held}, 1)

RECURSIVE suspension_measurements(_, _)
suspension_measurements(data, order) ==
    IF order = <<>> THEN Returned(<<>>)
    ELSE LET row == row_by_readable_id(data, Head(order))
             suspension == remote_suspension(Head(order))
             measurement_set == IF row = KeyError THEN Raised
                                ELSE _extract_measurements_from_row(row, suspension)
             rest == suspension_measurements(data, Tail(order))
         IN  IF measurement_set.raised \/ rest.raised THEN Raised
             ELSE Returned([k \in DOMAIN measurement_set.value |->
                               <<suspension.id, measurement_set.value[k]>>]
                           \o rest.value)

\* csv_to_suspension_measurements, flattened as app.py 234-243 flattens it.
csv_to_suspension_measurements(data, held) ==
    suspension_measurements(data, SuspensionOrder(held))

\* read_csv and csv_to_new_suspensions
SuspensionsParse ==
    /\ upc = "start"
    /\ LET new == csv_to_new_suspensions(suspensions_csv, remote_suspensions)
       IN  /\ new_suspensions' = new.value
           /\ upc' = IF new.raised THEN "raised" ELSE "suspensions"
           /\ uclean' = (uclean /\ ~new.raised)
    /\ UNCHANGED <<suspensions_csv, remote_suspensions,
                   remote_suspension_measurements, urun,
                   new_suspension_measurements>>
    /\ SuspensionsFrame

\* _post_many on the new suspensions, then csv_to_suspension_measurements on
\* the suspensions the remote then holds.
SuspensionsPost ==
    /\ upc = "suspensions"
    /\ \E o \in Outcomes(Len(new_suspensions)) :
         LET held == remote_suspensions \cup
                        {new_suspensions[k].readable_id :
                            k \in {i \in DOMAIN o : o[i] = "created"}}
             new == csv_to_suspension_measurements(suspensions_csv, held)
             raised == (\E i \in DOMAIN o : o[i] = "raised") \/ new.raised
         IN  /\ remote_suspensions' = held
             /\ new_suspension_measurements' = IF raised THEN <<>> ELSE new.value
             /\ upc' = IF raised THEN "raised" ELSE "measurements"
             /\ uclean' = (uclean /\ ~raised /\ \A i \in DOMAIN o : o[i] = "created")
    /\ UNCHANGED <<suspensions_csv, remote_suspension_measurements, urun,
                   new_suspensions>>
    /\ SuspensionsFrame

\* _post_many on the suspension measurements
SuspensionMeasurementsPost ==
    /\ upc = "measurements"
    /\ \E o \in Outcomes(Len(new_suspension_measurements)) :
         /\ remote_suspension_measurements' = remote_suspension_measurements \cup
               {new_suspension_measurements[k] :
                   k \in {i \in DOMAIN o : o[i] = "created"}}
         /\ upc' = IF \E i \in DOMAIN o : o[i] = "raised" THEN "raised" ELSE "done"
         /\ uclean' = (uclean /\ \A i \in DOMAIN o : o[i] = "created")
    /\ UNCHANGED <<suspensions_csv, remote_suspensions, urun, new_suspensions,
                   new_suspension_measurements>>
    /\ SuspensionsFrame

\* The program is run again over the same CSV.
SuspensionsRunAgain ==
    /\ upc \in {"raised", "done"}
    /\ urun < MaxRuns
    /\ urun' = urun + 1
    /\ upc' = "start"
    /\ new_suspensions' = <<>>
    /\ new_suspension_measurements' = <<>>
    /\ UNCHANGED <<suspensions_csv, remote_suspensions,
                   remote_suspension_measurements, uclean>>
    /\ SuspensionsFrame

----------------------------------------------------------------------------
(* models/people.py: csv_to_person_creations.                               *)

\* An email is a sequence of pieces, "@" one of them: plain addresses, one
\* with two "@", one of a domain in other case, one without "@", the empty
\* string.
Emails ==
    {<<"a", "@", "yale.edu">>, <<"b", "@", "jax.org">>,
     <<"c", "@", "yale.edu", "@", "jax.org">>, <<"d", "@", "Yale.edu">>,
     <<"e">>, <<>>}

PeopleRows == [name : {<<"n">>}, email : Emails \cup {None},
               email_domain : {None, <<"yale.edu">>}]

\* The institutions the remote may answer with: name and id.
RemoteInstitutionLists ==
    {<<>>,
     <<[name |-> "Yale University", id |-> 1]>>,
     <<[name |-> "Yale University", id |-> 1],
       [name |-> "Jackson Laboratory", id |-> 2]>>,
     <<[name |-> "Yale University", id |-> 1],
       [name |-> "Broad Institute", id |-> 3]>>,
     <<[name |-> "Yale University", id |-> 1],
       [name |-> "Yale University", id |-> 3]>>}

\* The table of _email_domain_institution_map, two of its nine entries.
institution_domains ==
    [name \in {"Yale University", "Jackson Laboratory"} |->
        IF name = "Yale University" THEN <<"yale.edu">> ELSE <<"jax.org">>]

\* email.split("@")[1]: the piece between the first "@" and the next.
RECURSIVE up_to_at(_)
up_to_at(s) ==
    IF s = <<>> \/ Head(s) = "@" THEN <<>> ELSE <<Head(s)>> \o up_to_at(Tail(s))

RECURSIVE after_first_at(_)
after_first_at(s) ==
    IF s = <<>> THEN <<>>
    ELSE IF Head(s) = "@" THEN up_to_at(Tail(s)) ELSE after_first_at(Tail(s))

\* email.split("@")[-1]: what follows the last "@", the whole string when
\* it has none.
RECURSIVE split_last(_)
split_last(s) ==
    IF \E n \in DOMAIN s : s[n] = "@"
    THEN split_last(SubSeq(s, (CHOOSE n \in DOMAIN s :
                                 s[n] = "@" /\ \A m \in 1..(n - 1) : s[m] # "@") + 1,
                           Len(s)))
    ELSE s

\* _email_domain_institution_map: the assertion on the names, then the
\* lookup of every institution's name in the table (KeyError for a name
\* that is not in it); the result maps a domain to an institution id.
_email_domain_institution_map(insts) ==
    IF \E i, j \in DOMAIN insts :
          i # j /\ insts[i].name = insts[j].name
    THEN Raised
    ELSE IF \E i \in DOMAIN insts :
               insts[i].name \notin DOMAIN institution_domains
    THEN Raised
    ELSE Returned({<<institution_domains[insts[i].name], insts[i].id>> :
                      i \in DOMAIN insts})

\* _parse_new_people: a row with an email_domain field is a ValueError, a
\* row without an email an AttributeError of None.split, a domain that is
\* not in the map a KeyError; rows with an empty email are skipped.
_parse_new_people(data, domains, already_inserted_people) ==
    IF \E i \in DOMAIN data : data[i].email_domain # None \/ data[i].email = None
    THEN Raised
    ELSE LET with_email == {i \in DOMAIN data : data[i].email # <<>>}
             known(i) == \E d \in domains : d[1] = split_last(data[i].email)
             people ==
                 [i \in DOMAIN data |->
                     IF i \in with_email /\ known(i)
                     THEN [name |-> data[i].name,
                           institution_id |->
                               (CHOOSE d \in domains :
                                   d[1] = split_last(data[i].email))[2],
                           email |-> data[i].email]
                     ELSE NoPayload]
             keep == {i \in with_email : people[i] \notin already_inserted_people}
         IN  IF \E i \in with_email : ~known(i) THEN Raised
             ELSE Returned(FilterIdx(people, keep, 1))

\* The rows as the first loop of _parse_new_people leaves them: every row
\* before the first one that raises has got its email_domain entry.
rows_after_parse_new_people(data) ==
    LET bad == {i \in DOMAIN data :
                  data[i].email_domain # None \/ data[i].email = None}
    IN  [i \in DOMAIN data |->
            IF \A j \in bad : i < j
            THEN [data[i] EXCEPT !.email_domain = split_last(data[i].email)]
            ELSE data[i]]

\* csv_to_person_creations
PeopleParse ==
    /\ people_pc = "start"
    /\ LET domains == _email_domain_institution_map(remote_institutions)
           parsed == IF domains.raised THEN Raised
                     ELSE _parse_new_people(people_csv, domains.value, people_cache)
       IN  /\ new_people' = parsed.value
           /\ people_pc' = IF parsed.raised THEN "raised" ELSE "parsed"
           /\ people_csv' = IF domains.raised THEN people_csv
                            ELSE rows_after_parse_new_people(people_csv)
    /\ UNCHANGED <<remote_institutions, people_cache>>
    /\ PeopleFrame

----------------------------------------------------------------------------
(* models/labs.py: csv_to_lab_creations.                                    *)

LabRows == [name : {None, <<>>, <<"Lab A">>, <<"Lab B">>},
            pi_email : {None, <<"a@yale.edu">>, <<"b@yale.edu">>},
            delivery_directory : {<<"dir">>}]

\* The people the remote may answer with: email (None for a person without
\* one) and id.
RemotePeopleLists ==
    {<<>>,
     <<[email |-> <<"a@yale.edu">>, id |-> 1]>>,
     <<[email |-> <<"a@yale.edu">>, id |-> 1], [email |-> <<"b@yale.edu">>, id |-> 2]>>,
     <<[email |-> <<"a@yale.edu">>, id |-> 1], [email |-> None, id |-> 3]>>}

\* _email_person_map: the people with an email, by email; the assertion
\* fails when a person has no email or two people share one.
_email_person_map(people) ==
    LET people_map == {<<people[i].email, people[i].id>> :
                          i \in {j \in DOMAIN people : people[j].email # None}}
    IN  IF Len(people) # Cardinality({pm[1] : pm \in people_map})
        THEN Raised ELSE Returned(people_map)

\* The variant that looks the PI up with dict.get and leaves out the rows
\* it does not find.
_parse_new_labs_skipping(data, people, already_inserted_labs) ==
    LET named == {i \in DOMAIN data : data[i].name \notin {None, <<>>}}
        found(i) == \E pm \in people : pm[1] = data[i].pi_email
        new_labs_ ==
            [i \in DOMAIN data |->
                IF i \in named /\ found(i)
                THEN [name |-> data[i].name,
                      pi_id |-> (CHOOSE pm \in people : pm[1] = data[i].pi_email)[2],
                      delivery_dir |-> data[i].delivery_directory]
                ELSE NoPayload]
        keep == {i \in named : found(i) /\ new_labs_[i] \notin already_inserted_labs}
    IN  Returned(FilterIdx(new_labs_, keep, 1))

\* _parse_new_labs: a lab for every row with a name; people[...] raises
\* KeyError for a PI email that is not in the map, which ends the list
\* comprehension and the function.
_parse_new_labs(data, people, already_inserted_labs) ==
    LET named == {i \in DOMAIN data : data[i].name \notin {None, <<>>}}
        found(i) == \E pm \in people : pm[1] = data[i].pi_email
        new_labs_ ==
            [i \in DOMAIN data |->
                IF i \in named /\ found(i)
                THEN [name |-> data[i].name,
                      pi_id |-> (CHOOSE pm \in people : pm[1] = data[i].pi_email)[2],
                      delivery_dir |-> data[i].delivery_directory]
                ELSE NoPayload]
        keep == {i \in named : new_labs_[i] \notin already_inserted_labs}
    IN  IF \E i \in named : ~found(i) THEN Raised
        ELSE Returned(FilterIdx(new_labs_, keep, 1))

\* csv_to_lab_creations
LabsParse ==
    /\ labs_pc = "start"
    /\ LET people == _email_person_map(remote_people)
           parsed == IF people.raised THEN Raised
                     ELSE _parse_new_labs(labs_csv, people.value, labs_cache)
       IN  /\ new_labs' = parsed.value
           /\ labs_pc' = IF parsed.raised THEN "raised" ELSE "parsed"
    /\ UNCHANGED <<labs_csv, remote_people, labs_cache>>
    /\ LabsFrame

----------------------------------------------------------------------------
(* app.py _write_error and utils.py write_error: the error directory.       *)

MaxErrorWrites == 3

\* The request bodies: with or without a readable_id, with or without a name.
ErrorRequests == [readable_id : {Absent, <<"S1">>},
                  name : {Absent, <<"S1">>, <<"A">>}]

\* lambda d: d.get("readable_id", d.get("name", "ERROR"))
default_filename_generator(d) ==
    IF d.readable_id # Absent THEN d.readable_id
    ELSE IF d.name # Absent THEN d.name
    ELSE <<"ERROR">>

\* error_subdir.mkdir(parents=True, exist_ok=True)
mkdir(dir, sub) ==
    IF sub \in DOMAIN dir THEN dir
    ELSE [d \in DOMAIN dir \cup {sub} |-> IF d = sub THEN <<>> ELSE dir[d]]

\* Path.write_text: the file is created, or replaced when it exists.  A
\* subdirectory is a function from file numbers ("<n>.json") to contents.
write_text(dir, sub, filename, content) ==
    [dir EXCEPT ![sub] =
        [f \in DOMAIN dir[sub] \cup {filename} |->
            IF f = filename THEN content ELSE dir[sub][f]]]

\* The variant that names every file "0.json".
write_error_fixed_name(dir, request, status) ==
    LET error_subdir == default_filename_generator(request)
        made == mkdir(dir, error_subdir)
        to_write == [request |-> request, status |-> status]
    IN  [dir |-> write_text(made, error_subdir, 0, to_write),
         wrote |-> <<[sub |-> error_subdir, filename |-> 0,
                      content |-> to_write]>>]

\* write_error of utils.py: the file is named after the number of entries
\* of the subdirectory.  The result is the directory and the write done.
write_error(dir, request, status) ==
    LET error_subdir == default_filename_generator(request)
        made == mkdir(dir, error_subdir)
        filename == Cardinality(DOMAIN made[error_subdir])
        to_write == [request |-> request, status |-> status]
    IN  [dir |-> write_text(made, error_subdir, filename, to_write),
         wrote |-> <<[sub |-> error_subdir, filename |-> filename,
                      content |-> to_write]>>]

\* _write_error of app.py: the same, but a 401 response returns after the
\* mkdir without writing.
app_write_error(dir, request, status) ==
    IF status = Unauthorized
    THEN [dir |-> mkdir(dir, default_filename_generator(request)), wrote |-> <<>>]
    ELSE write_error(dir, request, status)

\* A call of utils.write_error with an error response.
UtilsWriteError ==
    /\ error_calls < MaxErrorWrites
    /\ \E request \in ErrorRequests, status \in {s \in Statuses : is_error(s)} :
         LET w == write_error(error_dir, request, status)
         IN  /\ error_dir' = w.dir
             /\ error_log' = error_log \o w.wrote
             /\ error_calls' = error_calls + 1
    /\ ErrorsFrame

\* A call of app._write_error with an error response.
AppWriteError ==
    /\ error_calls < MaxErrorWrites
    /\ \E request \in ErrorRequests, status \in {s \in Statuses : is_error(s)} :
         LET w == app_write_error(error_dir, request, status)
         IN  /\ error_dir' = w.dir
             /\ error_log' = error_log \o w.wrote
             /\ error_calls' = error_calls + 1
    /\ ErrorsFrame

----------------------------------------------------------------------------
(* read_write.py: read_from_cache and write_to_cache.                       *)

MaxCacheOps == 3
MaxCacheFiles == 2

\* The entities written: specimens of two classes, which share the
\* "specimens" subdirectory, and a lab, which goes to "labs".
CacheEntities ==
    {[class |-> "NewFrozenBlock", readable_id |-> <<"S1">>, name |-> <<"n">>],
     [class |-> "NewFrozenTissue", readable_id |-> <<"S2">>, name |-> <<"n">>],
     [class |-> "NewLab", readable_id |-> <<"L1">>, name |-> <<"Lab A">>]}

\* The subdirectory the callers pass for an entity.
subdir_name_of(class) == IF class = "NewLab" THEN "labs" ELSE "specimens"

\* The variant that writes without looking whether the file exists.
write_to_cache_overwriting(dir, subdir_name, filename, data) ==
    [dir |-> write_text(mkdir(dir, subdir_name), subdir_name, filename,
                        specimen_to_json(data)),
     raised |-> FALSE]

\* write_to_cache: FileExistsError when the path exists, else the file is
\* written.  The subdirectory is made first in both cases.
write_to_cache(dir, subdir_name, filename, data) ==
    LET subdir == mkdir(dir, subdir_name)
    IN  IF filename \in DOMAIN subdir[subdir_name]
        THEN [dir |-> subdir, raised |-> TRUE]
        ELSE [dir |-> write_text(subdir, subdir_name, filename,
                                 specimen_to_json(data)),
              raised |-> FALSE]

\* read_from_cache: the subdirectory is made, every file of it is decoded
\* with the one model; a file the model does not decode raises out of the
\* list comprehension.
read_from_cache(dir, subdir_name, model, strict) ==
    LET subdir == mkdir(dir, subdir_name)
        files == subdir[subdir_name]
    IN  IF strict /\ \E f \in DOMAIN files : files[f].written_by # model
        THEN [dir |-> subdir, raised |-> TRUE, value |-> {}]
        ELSE [dir |-> subdir, raised |-> FALSE,
              value |-> {specimen_from_json(model, files[f]) : f \in DOMAIN files}]

\* A call of write_to_cache.
WriteToCache ==
    /\ cache_ops < MaxCacheOps
    /\ \E data \in CacheEntities, filename \in 1..MaxCacheFiles :
         LET w == write_to_cache(cache_dir, subdir_name_of(data.class), filename, data)
         IN  /\ cache_dir' = w.dir
             /\ cache_last' = [op |-> "write", subdir_name |-> subdir_name_of(data.class),
                               filename |-> filename, data |-> data,
                               model |-> data.class, raised |-> w.raised,
                               value |-> {}]
             /\ cache_written' =
                   IF w.raised THEN cache_written
                   ELSE cache_written \cup
                          {[subdir_name |-> subdir_name_of(data.class),
                            filename |-> filename, data |-> data]}
    /\ cache_before' = cache_dir
    /\ cache_ops' = cache_ops + 1
    /\ CacheFrame

\* A call of read_from_cache with one of the classes of the subdirectory.
ReadFromCache ==
    /\ cache_ops < MaxCacheOps
    /\ \E data \in CacheEntities, strict \in BOOLEAN :
         LET r == read_from_cache(cache_dir, subdir_name_of(data.class),
                                  data.class, strict)
         IN  /\ cache_dir' = r.dir
             /\ cache_last' = [op |-> "read", subdir_name |-> subdir_name_of(data.class),
                               filename |-> 0, data |-> data,
                               model |-> data.class, raised |-> r.raised,
                               value |-> r.value]
    /\ cache_before' = cache_dir
    /\ cache_ops' = cache_ops + 1
    /\ UNCHANGED cache_written
    /\ CacheFrame

----------------------------------------------------------------------------
(* read_write.py: partition_results.                                        *)

MaxTasks == 3

\* A finished asyncio.Task: it returned a result, raised an exception, or
\* was cancelled.
FinishedTasks ==
    [state : {"returned"}, result : {1, 2}, exception : {0}]
    \cup [state : {"raised"}, result : {0}, exception : {1, 2}]
    \cup [state : {"cancelled"}, result : {0}, exception : {0}]

\* partition_results: the pairs of the tasks without an exception, in
\* order, the exceptions of the others logged.  Task.exception() raises
\* CancelledError for a cancelled task, which ends the function.
RECURSIVE partition_results(_, _, _)
partition_results(results, successes, logged) ==
    IF results = <<>>
    THEN [raised |-> FALSE, successes |-> successes, logged |-> logged]
    ELSE LET item == Head(results).item
             task == Head(results).task
         IN  IF task.state = "cancelled"
             THEN [raised |-> TRUE, successes |-> <<>>, logged |-> logged]
             ELSE IF task.state = "returned"
             THEN partition_results(Tail(results),
                                    Append(successes, <<item, task.result>>), logged)
             ELSE partition_results(Tail(results), successes,
                                    Append(logged, task.exception))

\* A call of partition_results.
PartitionResults ==
    /\ part_pc = "start"
    /\ LET p == partition_results(part_results, <<>>, <<>>)
       IN  /\ part_successes' = p.successes
           /\ part_logged' = p.logged
           /\ part_pc' = IF p.raised THEN "raised" ELSE "returned"
    /\ UNCHANGED part_results
    /\ PartitionFrame

----------------------------------------------------------------------------
(* main.py: two runs of the institutions stage at the same time.            *)

\* The two processes.
Runs == {1, 2}

\* The already-present check of send_institutions: the cache is read and
\* the CSV parsed against it.
RaceCheck(r) ==
    /\ race_pc[r] = "start"
    /\ race_seen' = [race_seen EXCEPT ![r] = race_cache]
    /\ race_new' = [race_new EXCEPT ![r] =
                       parse_institutions(race_csv, read_from_cache_main(race_cache))]
    /\ race_pc' = [race_pc EXCEPT ![r] = "send"]
    /\ UNCHANGED <<race_csv, race_cache, race_sent>>
    /\ RaceFrame

\* The TaskGroup of send_institutions: every institution the check left is
\* submitted, and the remote answers each request.
RaceSubmit(r) ==
    /\ race_pc[r] = "send"
    /\ race_sent' = [race_sent EXCEPT ![r] = race_new[r]]
    /\ race_pc' = [race_pc EXCEPT ![r] = "write"]
    /\ UNCHANGED <<race_csv, race_cache, race_seen, race_new>>
    /\ RaceFrame

\* write_institutions_to_cache of the run.
RaceWrite(r) ==
    /\ race_pc[r] = "write"
    /\ LET data == [i \in DOMAIN race_sent[r] |->
                       <<race_sent[r][i].id, race_sent[r][i]>>]
           w == write_to_cache_main(race_cache, data)
       IN  /\ race_cache' = w.files
           /\ race_pc' = [race_pc EXCEPT ![r] = IF w.raised THEN "raised" ELSE "done"]
    /\ UNCHANGED <<race_csv, race_seen, race_new, race_sent>>
    /\ RaceFrame

----------------------------------------------------------------------------
(* models/cdna.py: csv_to_new_cdna.                                         *)

MaxCdnaRows == 3

\* The rows of the cDNA CSV: a row with its required fields filled, or one
\* with all of them empty.
CdnaRows ==
    [readable_id : {"C1", "C2"},
     library_type : {"Gene Expression", "Gene Expression Flex", "VDJ-T"},
     gems_readable_id : {"G1", "G2", "G9"},
     empty : {FALSE}]
    \cup {[readable_id |-> "C1", library_type |-> "Gene Expression",
           gems_readable_id |-> "G1", empty |-> TRUE]}

\* The GEMs of the chromium runs the remote holds: readable id -> id.
gems == [g \in {"G1", "G2"} |-> IF g = "G1" THEN 1 ELSE 2]

\* to_snake_case and the renaming table of _parse_row, then LibraryType.
LibraryType(library_type) ==
    CASE library_type = "Gene Expression" -> "gene_expression"
      [] library_type = "Gene Expression Flex" -> "gene_expression"
      [] library_type = "VDJ-T" -> "vdj"

\* _parse_row: None for an empty row and for a row whose GEMs the remote
\* does not hold, else the NewCdna.
_parse_cdna_row(row) ==
    IF row.empty THEN NoPayload
    ELSE IF row.gems_readable_id \notin DOMAIN gems THEN NoPayload
    ELSE [readable_id |-> row.readable_id,
          library_type |-> LibraryType(row.library_type),
          gems_id |-> gems[row.gems_readable_id]]

\* itertools.groupby: the runs of consecutive elements of one key.
RECURSIVE groupby_gems_id(_)
groupby_gems_id(cdna) ==
    IF cdna = <<>> THEN <<>>
    ELSE LET key == Head(cdna).gems_id
             n == CHOOSE k \in 1..Len(cdna) :
                      /\ \A j \in 1..k : cdna[j].gems_id = key
                      /\ k = Len(cdna) \/ cdna[k + 1].gems_id # key
         IN  <<SubSeq(cdna, 1, n)>> \o groupby_gems_id(SubSeq(cdna, n + 1, Len(cdna)))

\* sorted(cdna, key=lambda c: c.gems_id): a stable sort.
RECURSIVE sorted_by_gems_id(_)
sorted_by_gems_id(cdna) ==
    IF cdna = <<>> THEN <<>>
    ELSE LET least == CHOOSE i \in DOMAIN cdna :
                          /\ \A j \in DOMAIN cdna : cdna[i].gems_id <= cdna[j].gems_id
                          /\ \A j \in 1..(i - 1) : cdna[j].gems_id # cdna[i].gems_id
         IN  <<cdna[least]>> \o
             sorted_by_gems_id(SubSeq(cdna, 1, least - 1)
                               \o SubSeq(cdna, least + 1, Len(cdna)))

\* The NewCdnaGroup of a group.
NewCdnaGroup(group) ==
    [kind |-> IF Len(group) = 1 THEN "Single"
              ELSE IF Cardinality({group[i].library_type : i \in DOMAIN group}) = 1
              THEN "OnChipMultiplexing"
              ELSE "Multiple",
     members |-> group]

\* The variant that groups without sorting first.
cdna_groups_unsorted(cdna) == groupby_gems_id(cdna)

\* cdna = sorted(...); itertools.groupby(cdna, key=lambda c: c.gems_id)
cdna_groups(cdna) == groupby_gems_id(sorted_by_gems_id(cdna))

\* csv_to_new_cdna on the rows, given the readable ids of the cDNA the
\* remote holds.
csv_to_new_cdna(data, pre_existing) ==
    LET parsed == [i \in DOMAIN data |-> _parse_cdna_row(data[i])]
        keep == {i \in DOMAIN data :
                   /\ parsed[i] # NoPayload
                   /\ parsed[i].readable_id \notin pre_existing}
        groups == cdna_groups(FilterIdx(parsed, keep, 1))
    IN  [g \in DOMAIN groups |-> NewCdnaGroup(groups[g])]

CsvToNewCdna ==
    /\ cdna_pc = "start"
    /\ new_cdna' = csv_to_new_cdna(cdna_csv, remote_cdna)
    /\ cdna_pc' = "returned"
    /\ UNCHANGED <<cdna_csv, remote_cdna>>
    /\ CdnaFrame

----------------------------------------------------------------------------

vars == <<varsApp, varsMain, varsProjects, varsSeq, varsSpecimens,
         varsMeasurements, varsSuspensions,
         varsPeople,
         varsLabs,
         varsErrors,
         varsCache,
         varsPartition,
         varsRace,
         varsCdna>>

InitApp ==
    /\ CdnaIdle
    /\ RaceIdle
    /\ PartitionIdle
    /\ CacheIdle
    /\ ErrorsIdle
    /\ LabsIdle
    /\ PeopleIdle
    /\ SuspensionsIdle
    /\ MeasurementsIdle
    /\ MainIdle
    /\ SpecimensIdle
    /\ SeqIdle
    /\ ProjectsIdle
    /\ settings \in SUBSET SettingNames
    /\ stage = 1
    /\ pc = "idle"
    /\ tasks = <<>>
    /\ responses = <<>>
    /\ errors_dir = <<>>
    /\ handed = {}
    /\ sends = 0

NextApp ==
    \/ SkipStage
    \/ BeginStage
    \/ \E i \in DOMAIN tasks : TaskStart(i)
    \/ \E i \in DOMAIN tasks : TaskRespond(i)
    \/ \E i \in DOMAIN tasks : TaskRaise(i)
    \/ FinishBatch
    \/ BatchRaises
    \/ Finish

InitMain ==
    /\ CdnaIdle
    /\ RaceIdle
    /\ PartitionIdle
    /\ CacheIdle
    /\ ErrorsIdle
    /\ LabsIdle
    /\ PeopleIdle
    /\ SuspensionsIdle
    /\ MeasurementsIdle
    /\ AppIdle
    /\ SpecimensIdle
    /\ SeqIdle
    /\ ProjectsIdle
    /\ csv \in UNION {[1..n -> InstitutionRows] : n \in 1..MaxRows}
    /\ cache_exists \in BOOLEAN
    /\ cache = <<>>
    /\ remote = {}
    /\ run = 1
    /\ mpc = "start"
    /\ mtasks = <<>>
    /\ institutions = <<>>
    /\ submitted = {}
    /\ accepted = {}
    /\ cleanRun = 0

NextMain ==
    \/ StartRun
    \/ \E i \in DOMAIN mtasks : CreateStart(i)
    \/ \E i \in DOMAIN mtasks : CreateReturn(i)
    \/ \E i \in DOMAIN mtasks : CreateRaise(i)
    \/ SendRaises
    \/ write_institutions_to_cache
    \/ RunAgain

SpecApp == InitApp /\ [][NextApp]_vars

SpecMain == InitMain /\ [][NextMain]_vars

InitProjects ==
    /\ CdnaIdle
    /\ RaceIdle
    /\ PartitionIdle
    /\ CacheIdle
    /\ ErrorsIdle
    /\ LabsIdle
    /\ PeopleIdle
    /\ SuspensionsIdle
    /\ MeasurementsIdle
    /\ AppIdle
    /\ SpecimensIdle
    /\ SeqIdle
    /\ MainIdle
    /\ pcsv \in UNION {[1..n -> ProjectRows] : n \in 1..MaxRows}
    /\ empty_fn \in EmptyFns
    /\ premote \in {<<>>, <<[name |-> <<"A">>]>>}
    /\ prun = 1
    /\ ppc = "start"
    /\ pre_existing_projects = {}
    /\ new_projects = <<>>
    /\ pclean = TRUE

NextProjects ==
    \/ ProjectsParse
    \/ ProjectsPost
    \/ ProjectsRunAgain

SpecProjects == InitProjects /\ [][NextProjects]_vars

InitSeq ==
    /\ CdnaIdle
    /\ RaceIdle
    /\ PartitionIdle
    /\ CacheIdle
    /\ ErrorsIdle
    /\ LabsIdle
    /\ PeopleIdle
    /\ SuspensionsIdle
    /\ MeasurementsIdle
    /\ AppIdle
    /\ SpecimensIdle
    /\ MainIdle
    /\ ProjectsIdle
    /\ scsv \in UNION {[1..n -> SeqRows] : n \in 1..MaxRows}
    /\ sremote \in {{}, {1}}
    /\ srun = 1
    /\ spc = "start"
    /\ sequencing_runs = <<>>
    /\ sclean = TRUE

NextSeq ==
    \/ SeqParse
    \/ SeqSubmit
    \/ SeqRunAgain

SpecSeq == InitSeq /\ [][NextSeq]_vars

InitSpecimens ==
    /\ CdnaIdle
    /\ RaceIdle
    /\ PartitionIdle
    /\ CacheIdle
    /\ ErrorsIdle
    /\ LabsIdle
    /\ PeopleIdle
    /\ SuspensionsIdle
    /\ MeasurementsIdle
    /\ AppIdle
    /\ MainIdle
    /\ ProjectsIdle
    /\ SeqIdle
    /\ specimen_csv \in UNION {[1..n -> SpecimenRows] : n \in 1..MaxRows}
    /\ specimens_cache = <<>>
    /\ xrun = 1
    /\ xpc = "start"
    /\ specimens = <<>>
    /\ next_id = 0

NextSpecimens ==
    \/ SpecimensParse
    \/ write_specimens_to_cache
    \/ SpecimensRunAgain

SpecSpecimens == InitSpecimens /\ [][NextSpecimens]_vars

InitMeasurements ==
    /\ CdnaIdle
    /\ RaceIdle
    /\ PartitionIdle
    /\ CacheIdle
    /\ ErrorsIdle
    /\ LabsIdle
    /\ PeopleIdle
    /\ SuspensionsIdle
    /\ AppIdle
    /\ MainIdle
    /\ ProjectsIdle
    /\ SeqIdle
    /\ SpecimensIdle
    /\ measurement_csv \in UNION {[1..n -> MeasurementRows] : n \in 1..MaxMeasurementRows}
    /\ remote_measurements = {}
    /\ mrun = 1
    /\ mmpc = "start"
    /\ new_specimen_measurements = <<>>

NextMeasurements ==
    \/ MeasurementsParse
    \/ MeasurementsPost
    \/ MeasurementsRunAgain

SpecMeasurements == InitMeasurements /\ [][NextMeasurements]_vars

InitSuspensions ==
    /\ CdnaIdle
    /\ RaceIdle
    /\ PartitionIdle
    /\ CacheIdle
    /\ ErrorsIdle
    /\ LabsIdle
    /\ PeopleIdle
    /\ AppIdle
    /\ MainIdle
    /\ ProjectsIdle
    /\ SeqIdle
    /\ SpecimensIdle
    /\ MeasurementsIdle
    /\ suspensions_csv \in UNION {[1..n -> SuspensionRows] : n \in 1..MaxRows}
    /\ remote_suspensions \in SUBSET SuspensionIds
    /\ remote_suspension_measurements = {}
    /\ urun = 1
    /\ upc = "start"
    /\ new_suspensions = <<>>
    /\ new_suspension_measurements = <<>>
    /\ uclean = TRUE

NextSuspensions ==
    \/ SuspensionsParse
    \/ SuspensionsPost
    \/ SuspensionMeasurementsPost
    \/ SuspensionsRunAgain

SpecSuspensions == InitSuspensions /\ [][NextSuspensions]_vars

InitPeople ==
    /\ CdnaIdle
    /\ RaceIdle
    /\ PartitionIdle
    /\ CacheIdle
    /\ ErrorsIdle
    /\ LabsIdle
    /\ AppIdle
    /\ ProjectsIdle
    /\ SeqIdle
    /\ SpecimensIdle
    /\ MeasurementsIdle
    /\ SuspensionsIdle
    /\ MainIdle
    /\ people_csv \in UNION {[1..n -> PeopleRows] : n \in 1..MaxRows}
    /\ remote_institutions \in RemoteInstitutionLists
    /\ people_cache \in {{}, {[name |-> <<"n">>, institution_id |-> 1,
                               email |-> <<"a", "@", "yale.edu">>]}}
    /\ people_pc = "start"
    /\ new_people = <<>>

NextPeople ==
    \/ PeopleParse

SpecPeople == InitPeople /\ [][NextPeople]_vars

InitLabs ==
    /\ CdnaIdle
    /\ RaceIdle
    /\ PartitionIdle
    /\ CacheIdle
    /\ ErrorsIdle
    /\ AppIdle
    /\ ProjectsIdle
    /\ SeqIdle
    /\ SpecimensIdle
    /\ MeasurementsIdle
    /\ SuspensionsIdle
    /\ PeopleIdle
    /\ MainIdle
    /\ labs_csv \in UNION {[1..n -> LabRows] : n \in 1..MaxRows}
    /\ remote_people \in RemotePeopleLists
    /\ labs_cache \in {{}, {[name |-> <<"Lab A">>, pi_id |-> 1,
                             delivery_dir |-> <<"dir">>]}}
    /\ labs_pc = "start"
    /\ new_labs = <<>>

NextLabs ==
    \/ LabsParse

SpecLabs == InitLabs /\ [][NextLabs]_vars

InitErrors ==
    /\ CdnaIdle
    /\ RaceIdle
    /\ PartitionIdle
    /\ CacheIdle
    /\ AppIdle
    /\ ProjectsIdle
    /\ SeqIdle
    /\ SpecimensIdle
    /\ MeasurementsIdle
    /\ SuspensionsIdle
    /\ PeopleIdle
    /\ LabsIdle
    /\ MainIdle
    /\ error_dir = <<>>
    /\ error_log = <<>>
    /\ error_calls = 0

NextErrors ==
    \/ UtilsWriteError
    \/ AppWriteError

SpecErrors == InitErrors /\ [][NextErrors]_vars

InitCache ==
    /\ CdnaIdle
    /\ RaceIdle
    /\ PartitionIdle
    /\ AppIdle
    /\ ProjectsIdle
    /\ SeqIdle
    /\ SpecimensIdle
    /\ MeasurementsIdle
    /\ SuspensionsIdle
    /\ PeopleIdle
    /\ LabsIdle
    /\ ErrorsIdle
    /\ MainIdle
    /\ cache_dir = <<>>
    /\ cache_before = <<>>
    /\ cache_last = [op |-> "none"]
    /\ cache_written = {}
    /\ cache_ops = 0

NextCache ==
    \/ WriteToCache
    \/ ReadFromCache

SpecCache == InitCache /\ [][NextCache]_vars

InitPartition ==
    /\ CdnaIdle
    /\ RaceIdle
    /\ AppIdle
    /\ ProjectsIdle
    /\ SeqIdle
    /\ SpecimensIdle
    /\ MeasurementsIdle
    /\ SuspensionsIdle
    /\ PeopleIdle
    /\ LabsIdle
    /\ ErrorsIdle
    /\ CacheIdle
    /\ MainIdle
    /\ part_results \in
          UNION {{[i \in 1..n |-> [item |-> i, task |-> ts[i]]] :
                    ts \in [1..n -> FinishedTasks]} : n \in 0..MaxTasks}
    /\ part_pc = "start"
    /\ part_successes = <<>>
    /\ part_logged = <<>>

NextPartition ==
    \/ PartitionResults

SpecPartition == InitPartition /\ [][NextPartition]_vars

InitRace ==
    /\ CdnaIdle
    /\ AppIdle
    /\ ProjectsIdle
    /\ SeqIdle
    /\ SpecimensIdle
    /\ MeasurementsIdle
    /\ SuspensionsIdle
    /\ PeopleIdle
    /\ LabsIdle
    /\ ErrorsIdle
    /\ CacheIdle
    /\ PartitionIdle
    /\ MainIdle
    /\ race_csv \in UNION {[1..n -> InstitutionRows] : n \in 1..MaxRows}
    /\ race_cache = <<>>
    /\ race_pc = <<"start", "start">>
    /\ race_seen = <<<<>>, <<>>>>
    /\ race_new = <<<<>>, <<>>>>
    /\ race_sent = <<<<>>, <<>>>>

NextRace ==
    \/ \E r \in Runs : RaceCheck(r)
    \/ \E r \in Runs : RaceSubmit(r)
    \/ \E r \in Runs : RaceWrite(r)

SpecRace == InitRace /\ [][NextRace]_vars

InitCdna ==
    /\ AppIdle
    /\ ProjectsIdle
    /\ SeqIdle
    /\ SpecimensIdle
    /\ MeasurementsIdle
    /\ SuspensionsIdle
    /\ PeopleIdle
    /\ LabsIdle
    /\ ErrorsIdle
    /\ CacheIdle
    /\ PartitionIdle
    /\ RaceIdle
    /\ MainIdle
    /\ cdna_csv \in UNION {[1..n -> CdnaRows] : n \in 0..MaxCdnaRows}
    /\ remote_cdna \in {{}, {"C2"}}
    /\ cdna_pc = "start"
    /\ new_cdna = <<>>

NextCdna ==
    \/ CsvToNewCdna

SpecCdna == InitCdna /\ [][NextCdna]_vars

----------------------------------------------------------------------------
(* The batch submitter.                                                     *)

\* C1: in a batch of _post_many, a request that raises neither aborts the
\* batch nor cancels a sibling request: whenever a task has raised, no other
\* task of the batch is cancelled and the batch does not end by raising.
C1_FailureIsolated ==
    \A i \in DOMAIN tasks :
        tasks[i].state = "raised" =>
            /\ pc # "raised"
            /\ \A j \in DOMAIN tasks \ {i} : tasks[j].state # "cancelled"

\* C10: a response with an HTTP error status is an ordinary completion of its
\* task: it cancels no sibling and does not make the batch raise (only a
\* request that raised does), every row of the returned batch has its
\* response, every error pair of the batch was acted on by _write_errors, and
\* the run has gone on to the stage after it.
C10_ErrorStatusContinues ==
    /\ \A i \in DOMAIN tasks :
          is_error(tasks[i].status) => tasks[i].state = "responded"
    /\ \A i \in DOMAIN tasks :
          tasks[i].state = "cancelled" =>
              \E j \in DOMAIN tasks :
                  tasks[j].state = "raised" /\ tasks[j].status = 0
    /\ pc = "raised" =>
          \E j \in DOMAIN tasks : tasks[j].state = "raised" /\ tasks[j].status = 0
    /\ \A p \in Range(responses) :
          /\ p.status \in Statuses
          /\ is_error(p.status) =>
                [stage |-> p.request.stage, pair |-> p] \in handed
    /\ \A h \in handed : stage > h.stage

\* A batch of two rows whose first response was an error and whose second
\* row was created, the error handed on, and a later stage submitting.
C10_Witness ==
    /\ Len(responses) = 2
    /\ is_error(responses[1].status)
    /\ responses[2].status = 201
    /\ [stage |-> responses[1].request.stage, pair |-> responses[1]] \in handed
    /\ pc = "gather"
    /\ stage > responses[1].request.stage

----------------------------------------------------------------------------
(* The institutions run of main.py.                                         *)

\* C2: an institution whose create request the remote accepted in an earlier
\* run is not submitted again in a later run.
C2_NoResubmission ==
    submitted \cap accepted = {}

----------------------------------------------------------------------------
(* The projects stage.                                                      *)

\* C4: once csv_to_new_projects has run, a CSV row is in its result exactly
\* when the row is not empty and its name is not a key of the map fetched by
\* get_project_name_id_map: rows named like an existing project are excluded,
\* every other non-empty row is included.
C4_ExistingProjectsExcluded ==
    ppc = "post" =>
        \A i \in DOMAIN pcsv :
            LET row == pcsv[i]
                included == \E k \in DOMAIN new_projects :
                               new_projects[k].name = row.name
            IN  /\ row.name \in pre_existing_projects => ~included
                /\ (~row_is_empty(row, {"name"}, empty_fn)
                      /\ row.name \notin pre_existing_projects) => included

\* The remote holds "A"; a row named "a" is excluded and a row named "B" is
\* included.
C4_Witness ==
    /\ ppc = "post"
    /\ <<"A">> \in pre_existing_projects
    /\ Len(pcsv) = 2
    /\ pcsv[1].name = <<"a">>
    /\ pcsv[2].name = <<"B">>
    /\ Len(new_projects) = 1
    /\ new_projects[1].name = <<"B">>

\* C5: when every post of the earlier runs was stored by the remote as
\* posted, a later run of the projects stage over the same CSV posts no
\* project.
C5_SecondRunPostsNothing ==
    (prun > 1 /\ pclean /\ ppc = "post") => new_projects = <<>>

----------------------------------------------------------------------------
(* Sequencing runs.                                                         *)

\* C7: when every sequencing run yielded by the earlier runs was created and
\* is in the pre-existing set, csv_to_sequencing_runs over the same CSV
\* yields no sequencing run.
C7_SecondRunYieldsNothing ==
    (srun > 1 /\ sclean /\ spc = "parsed") => sequencing_runs = <<>>

----------------------------------------------------------------------------
(* The specimens cache.                                                     *)

\* C8: a specimen that write_specimens_to_cache stored in an earlier run is
\* not in the result of csvs_to_new_specimens in a later run over the same
\* CSV, whatever the classes of the specimens in the cache.
C8_CachedSpecimensExcluded ==
    xpc = "parsed" =>
        \A f \in DOMAIN specimens_cache : \A k \in DOMAIN specimens :
            specimen_to_json(specimens[k]) # specimens_cache[f]

----------------------------------------------------------------------------
(* Specimen measurements.                                                   *)

\* C9: csv_to_new_specimen_measurements returns no measurement that the
\* remote already holds for the specimen (the body it would be posted with
\* is the body of a measurement held, its id removed), with or without a
\* date_measured value.
C9_HeldMeasurementsExcluded ==
    mmpc = "parsed" =>
        \A k \in DOMAIN new_specimen_measurements :
            [specimen_id |-> new_specimen_measurements[k][1],
             body |-> strip_measurement(new_specimen_measurements[k][2])]
                \notin remote_measurements

----------------------------------------------------------------------------
(* Suspension measurements.                                                 *)

\* C6: when the suspensions stage runs again over the same CSV after a run
\* whose requests the remote all accepted, no suspension measurement that
\* the remote already holds is posted again.
C6_HeldSuspensionMeasurementsNotPosted ==
    (urun > 1 /\ uclean /\ upc = "measurements") =>
        \A k \in DOMAIN new_suspension_measurements :
            new_suspension_measurements[k] \notin remote_suspension_measurements


----------------------------------------------------------------------------
(* The fan-in of a batch and the order of the stages.                       *)

C12_FixedStageOrder ==
    [][/\ stage' \in {stage, stage + 1}
       /\ stage' # stage =>
             \A i \in DOMAIN tasks : tasks[i].state = "responded"
       /\ \A i \in DOMAIN tasks' :
             /\ tasks'[i].body.stage = stage'
             /\ Stages[stage'] = "suspension_measurements" =>
                   "suspensions" \in settings]_vars

\* The suspension measurements stage, the last one, has a request in flight
\* after an earlier stage of the same run posted and got its response.
C12_Witness ==
    /\ stage = Len(Stages)
    /\ Stages[stage] = "suspension_measurements"
    /\ pc = "gather"
    /\ \E i \in DOMAIN tasks : tasks[i].state = "inflight"
    /\ responses # <<>>
    /\ responses[1].request.stage < stage


----------------------------------------------------------------------------
(* Rows that lack required fields.                                          *)

\* C13: a specimen measurement row that lacks specimen_readable_id or
\* measured_by yields nothing, and no measurement is emitted without its
\* measured_by field.
C13_IncompleteRowsYieldNothing ==
    mmpc = "parsed" =>
        /\ \A i \in DOMAIN measurement_csv :
              (measurement_csv[i].specimen_readable_id = None
               \/ measurement_csv[i].measured_by = None) =>
                  _parse_specimen_measurement_row(measurement_csv[i]) = NoPayload
        /\ \A k \in DOMAIN new_specimen_measurements :
              new_specimen_measurements[k][2].measured_by # Absent

\* C19: a row whose required fields are all None is empty for row_is_empty,
\* its mapper returns None, and the stage goes on without an error and
\* without a payload for it: the projects to post are no more than the rows
\* that have a name, and none of them has None for its name.
C19_EmptyRowsDropped ==
    /\ \A r \in MeasurementRows :
          (r.specimen_readable_id = None /\ r.measured_by = None) =>
              /\ measurement_row_is_empty(r)
              /\ _parse_specimen_measurement_row(r) = NoPayload
    /\ (ppc = "post" /\ property_is_unique(premote)) =>
          /\ \A i \in DOMAIN pcsv :
                pcsv[i].name = None =>
                    /\ row_is_empty(pcsv[i], {"name"}, empty_fn)
                    /\ _parse_row(pcsv[i], empty_fn) = NoPayload
          /\ Len(new_projects) <= Cardinality({i \in DOMAIN pcsv : pcsv[i].name # None})
          /\ \A k \in DOMAIN new_projects : new_projects[k].name # None
    /\ (ppc = "raised" /\ prun = 1) => \E i \in DOMAIN pcsv : pcsv[i].name # None

\* A CSV of an empty row and a named row was parsed: only the named row is
\* to be posted.
C19_Witness ==
    /\ ppc = "post"
    /\ Len(pcsv) = 2
    /\ pcsv[1].name = None
    /\ pcsv[2].name = <<"B">>
    /\ Len(new_projects) = 1
    /\ new_projects[1].name = <<"B">>


----------------------------------------------------------------------------
(* Natural identifiers.                                                     *)

\* C14: the batch of projects to post holds no two payloads with the same
\* name.
C14_NoDuplicateNames ==
    ppc = "post" =>
        \A i, j \in DOMAIN new_projects :
            new_projects[i].name = new_projects[j].name => i = j

\* C15: parse_institutions returns no institution whose UUID is the UUID of
\* an institution read from the cache, whatever its name.
C15_CachedUuidExcluded ==
    mpc = "gather" =>
        \A k \in DOMAIN institutions :
            institutions[k].id \notin
                {c.id : c \in read_from_cache_main(cache)}


----------------------------------------------------------------------------
(* People.                                                                  *)

\* C16: when _parse_new_people returns, every person it returns has the
\* institution_id of the institution whose domain in the table is the part
\* of the person's email after its last "@", and every row with a non-empty
\* email is among the people returned or already inserted; a row whose
\* domain is not in the table makes the function raise.
C16_InstitutionByEmailDomain ==
    people_pc = "parsed" =>
        /\ \A k \in DOMAIN new_people :
              \E i \in DOMAIN remote_institutions :
                  /\ remote_institutions[i].name \in DOMAIN institution_domains
                  /\ \E n \in DOMAIN new_people[k].email :
                        /\ new_people[k].email[n] = "@"
                        /\ \A m \in (n + 1)..Len(new_people[k].email) :
                              new_people[k].email[m] # "@"
                        /\ SubSeq(new_people[k].email, n + 1,
                                  Len(new_people[k].email))
                              = institution_domains[remote_institutions[i].name]
                  /\ new_people[k].institution_id = remote_institutions[i].id
        /\ \A i \in DOMAIN people_csv :
              people_csv[i].email \notin {None, <<>>} =>
                  \E p \in Range(new_people) \cup people_cache :
                      p.email = people_csv[i].email

\* A person whose email has two "@" got the institution of the last domain,
\* next to a person of the other institution.
C16_Witness ==
    /\ people_pc = "parsed"
    /\ Len(new_people) = 2
    /\ new_people[1].email = <<"c", "@", "yale.edu", "@", "jax.org">>
    /\ new_people[1].institution_id = 2
    /\ new_people[2].institution_id = 1


----------------------------------------------------------------------------
(* Labs.                                                                    *)

\* C17: when a row with a name has a PI email that is not in the map of the
\* people fetched, csv_to_lab_creations raises and returns no lab at all,
\* not even those of the rows whose PI is found.
C17_UnknownPiRaises ==
    labs_pc \in {"parsed", "raised"} =>
        ((\E i \in DOMAIN labs_csv :
             /\ labs_csv[i].name \notin {None, <<>>}
             /\ \A p \in DOMAIN remote_people :
                   remote_people[p].email # labs_csv[i].pi_email)
         => (labs_pc = "raised" /\ new_labs = <<>>))

\* A CSV whose first row resolves and whose second does not: the function
\* raised although the map of the people was built.
C17_Witness ==
    /\ labs_pc = "raised"
    /\ Len(labs_csv) = 2
    /\ labs_csv[1].name = <<"Lab B">>
    /\ labs_csv[1].pi_email = <<"a@yale.edu">>
    /\ labs_csv[2].name = <<"Lab A">>
    /\ labs_csv[2].pi_email = <<"b@yale.edu">>
    /\ remote_people = <<[email |-> <<"a@yale.edu">>, id |-> 1]>>
    /\ new_labs = <<>>


----------------------------------------------------------------------------
(* Specimen rows.                                                           *)

\* C18: once csvs_to_new_specimens has gone through the CSV, no row that
\* lacks some but not all of its necessary fields is in the result, every
\* row that is complete, of a kind the match statement knows and of a
\* readable id the cache does not hold is in it, and the function raises
\* only when two of the specimens it would return share a readable id.
C18_PartialRowsDropped ==
    LET partial(r) == /\ \E key \in necessary_keys : r[key] = None
                      /\ \E key \in necessary_keys : r[key] # None
        valid(r) == /\ \A key \in necessary_keys : r[key] # None
                    /\ SpecimenClass(r.type, r.preservation_method) # Raises
        uncached(r) == \A f \in DOMAIN specimens_cache :
                          specimens_cache[f].readable_id # r.readable_id
    IN  /\ xpc = "parsed" =>
              /\ \A i \in DOMAIN specimen_csv :
                    (valid(specimen_csv[i]) /\ uncached(specimen_csv[i])) =>
                        _parse_specimen_row(specimen_csv[i]) \in Range(specimens)
              /\ \A k \in DOMAIN specimens :
                    \E i \in DOMAIN specimen_csv :
                        /\ ~partial(specimen_csv[i])
                        /\ valid(specimen_csv[i])
                        /\ specimens[k] = _parse_specimen_row(specimen_csv[i])
        /\ xpc = "raised" =>
              \E i, j \in DOMAIN specimen_csv :
                  /\ i # j
                  /\ valid(specimen_csv[i]) /\ valid(specimen_csv[j])
                  /\ specimen_csv[i].readable_id = specimen_csv[j].readable_id

\* A CSV whose first row is partially empty and whose second row is
\* complete: the second row alone is returned.
C18_Witness ==
    /\ xpc = "parsed"
    /\ Len(specimen_csv) = 2
    /\ specimen_csv[1].name = None
    /\ specimen_csv[1].species # None
    /\ specimen_csv[2].name # None
    /\ Len(specimens) = 1
    /\ specimens[1].readable_id = specimen_csv[2].readable_id


----------------------------------------------------------------------------
(* Error artifacts.                                                         *)

\* C20: every (request, response) pair with an HTTP error status that
\* _write_errors acted on has an artifact in the errors directory that holds
\* its request and its status, and every artifact in the directory belongs
\* to such a pair.
C20_EveryErrorHasArtifact ==
    /\ \A h \in handed :
          \E sub \in DOMAIN errors_dir : \E f \in DOMAIN errors_dir[sub] :
              /\ errors_dir[sub][f].request = h.pair.request
              /\ errors_dir[sub][f].status = h.pair.status
    /\ \A sub \in DOMAIN errors_dir : \A f \in DOMAIN errors_dir[sub] :
          /\ is_error(errors_dir[sub][f].status)
          /\ \E h \in handed :
                /\ h.pair.request = errors_dir[sub][f].request
                /\ h.pair.status = errors_dir[sub][f].status


----------------------------------------------------------------------------
(* The error directory.                                                     *)

\* C21: starting from an empty error directory, every artifact a call wrote
\* is still in its file with its content after all later calls, no two
\* writes went to the same file of the same subdirectory, and every
\* subdirectory holds as many files as artifacts were written into it.
C21_NoArtifactOverwritten ==
    /\ \A i \in DOMAIN error_log :
          /\ error_log[i].sub \in DOMAIN error_dir
          /\ error_log[i].filename \in DOMAIN error_dir[error_log[i].sub]
          /\ error_dir[error_log[i].sub][error_log[i].filename] = error_log[i].content
    /\ \A i, j \in DOMAIN error_log :
          (error_log[i].sub = error_log[j].sub
           /\ error_log[i].filename = error_log[j].filename) => i = j
    /\ \A sub \in DOMAIN error_dir :
          Cardinality(DOMAIN error_dir[sub]) =
              Cardinality({i \in DOMAIN error_log : error_log[i].sub = sub})

\* Three errors of two different requests that map to the same generated
\* name: files 0, 1 and 2 of the one subdirectory.
C21_Witness ==
    /\ Len(error_log) = 3
    /\ \A i \in DOMAIN error_log :
          error_log[i].sub = <<"S1">> /\ error_log[i].filename = i - 1
    /\ error_log[1].content.request # error_log[2].content.request
    /\ error_log[3].content = error_log[1].content


----------------------------------------------------------------------------
(* The cache directory.                                                     *)

\* C22: when read_from_cache is called on a subdirectory with a class,
\* it returns, and what it returns holds every entity of that class that
\* write_to_cache stored in the subdirectory.
C22_CacheRoundTrip ==
    cache_last.op = "read" =>
        \A w \in cache_written :
            (w.subdir_name = cache_last.subdir_name /\ w.data.class = cache_last.model)
            => (~cache_last.raised /\ w.data \in cache_last.value)

\* C23: a call of write_to_cache with the name of a file the subdirectory
\* holds raises and leaves every file as it was; a call with a new name
\* does not raise, creates that file with the entity's JSON and leaves
\* every other file of every subdirectory as it was.
C23_CacheAppendOnly ==
    cache_last.op = "write" =>
        LET sub == cache_last.subdir_name
            existed == /\ sub \in DOMAIN cache_before
                       /\ cache_last.filename \in DOMAIN cache_before[sub]
        IN  /\ cache_last.raised <=> existed
            /\ \A d \in DOMAIN cache_before :
                  /\ d \in DOMAIN cache_dir
                  /\ \A f \in DOMAIN cache_before[d] :
                        /\ f \in DOMAIN cache_dir[d]
                        /\ cache_dir[d][f] = cache_before[d][f]
            /\ \A d \in DOMAIN cache_dir : \A f \in DOMAIN cache_dir[d] :
                  \/ d \in DOMAIN cache_before /\ f \in DOMAIN cache_before[d]
                  \/ /\ ~existed
                     /\ d = sub
                     /\ f = cache_last.filename
                     /\ cache_dir[d][f] = specimen_to_json(cache_last.data)

\* A second write under the name of a file written before, with another
\* entity: it raised and the file holds the first entity.
C23_Witness ==
    /\ cache_last.op = "write"
    /\ cache_last.raised
    /\ cache_last.subdir_name = "specimens"
    /\ cache_last.data.class = "NewFrozenTissue"
    /\ cache_dir["specimens"][cache_last.filename].written_by = "NewFrozenBlock"
    /\ "labs" \in DOMAIN cache_dir
    /\ DOMAIN cache_dir["labs"] # {}


\* C29: the first run over a cache directory in which the institutions
\* subdirectory was never written does not fail while reading the cache:
\* it never ends raised before a single create task exists.
C29_FirstReadOfAbsentCache ==
    ~(run = 1 /\ ~cache_exists /\ mpc = "raised" /\ mtasks = <<>>)


----------------------------------------------------------------------------
(* No retry.                                                                *)

\* No retry: within one run no payload is POSTed more than once.  Every
\* POST is the first send of a payload that was not sent before, a task
\* that is done (response, exception or cancellation) is left as it is for
\* the rest of its batch, a payload that got a response or an exception was
\* sent exactly once, and a stage whose batch was submitted is never
\* submitted again.
NoRetry ==
    [][/\ stage' >= stage
       /\ sends' \in {sends, sends + 1}
       /\ sends' = sends + 1 =>
             \E i \in DOMAIN tasks :
                 /\ tasks[i].state = "created" /\ tasks[i].sent = 0
                 /\ tasks'[i].state = "inflight" /\ tasks'[i].sent = 1
                 /\ \A j \in DOMAIN tasks \ {i} : tasks'[j].sent = tasks[j].sent
       /\ \A i \in DOMAIN tasks' :
             /\ tasks'[i].sent <= 1
             /\ tasks'[i].state \in {"inflight", "responded", "raised"} =>
                   tasks'[i].sent = 1
       /\ \A i \in DOMAIN tasks :
             (Done(tasks[i]) /\ tasks' # <<>>) => tasks'[i] = tasks[i]
       /\ (tasks # <<>> /\ tasks' = <<>>) => stage' > stage
       /\ (tasks = <<>> /\ tasks' # <<>>) =>
             /\ \A i \in DOMAIN tasks' : tasks'[i].body.stage = stage
             /\ \A r \in Range(responses) : r.request.stage < stage]_vars

\* C25: every payload of a batch that _post_many is through with was POSTed
\* exactly once, whatever the outcome of its task.
C25_PostedExactlyOnce ==
    \A i \in DOMAIN tasks : Done(tasks[i]) => tasks[i].sent = 1


----------------------------------------------------------------------------
(* Requests, URLs and responses.                                            *)

\* C27: the tasks _post_many creates carry the payloads in input order, the
\* i-th posted to the URL of the entity or, in the measurement stages, to
\* the measurements URL of its own specimen or suspension; payload, URL and
\* received status of a task never change while its batch runs; and what
\* _post_many returns pairs, position by position, each payload with the
\* status its own request received.
C27_PairsInOrder ==
    [][/\ (tasks = <<>> /\ tasks' # <<>>) =>
             \A i \in DOMAIN tasks' :
                 /\ tasks'[i].body.k = i
                 /\ tasks'[i].url =
                       <<Stages[stage],
                         IF Stages[stage] \in UrlListStages
                         THEN tasks'[i].body.owner ELSE 0>>
       /\ (tasks # <<>> /\ tasks' # <<>>) =>
             \A i \in DOMAIN tasks :
                 /\ tasks'[i].body = tasks[i].body
                 /\ tasks'[i].url = tasks[i].url
                 /\ tasks[i].state = "responded" => tasks'[i].status = tasks[i].status
       /\ (pc = "gather" /\ pc' = "idle") =>
             /\ Len(responses') = Len(tasks)
             /\ \A i \in DOMAIN tasks :
                   /\ responses'[i].request = tasks[i].body
                   /\ responses'[i].status = tasks[i].status]_vars

\* A batch of two specimen measurements of different specimens whose
\* requests got different statuses, returned.
C27_Witness ==
    /\ Len(responses) = 2
    /\ Stages[responses[1].request.stage] = "specimen_measurements"
    /\ responses[1].request.owner = 2
    /\ responses[2].request.owner = 1
    /\ responses[1].status = 422
    /\ responses[2].status = 201
    /\ pc = "idle"


----------------------------------------------------------------------------
(* partition_results.                                                       *)

\* C28: handed finished tasks, partition_results does not raise; it returns,
\* in input order, exactly the (item, result) pairs of the tasks that
\* finished without an exception, and logs one exception for every other
\* task.
C28_PartitionNeverRaises ==
    part_pc # "start" =>
        LET ok == {i \in DOMAIN part_results : part_results[i].task.state = "returned"}
        IN  /\ part_pc = "returned"
            /\ Len(part_successes) = Cardinality(ok)
            /\ \A k \in DOMAIN part_successes :
                  /\ part_successes[k][1] \in ok
                  /\ part_successes[k][2] = part_results[part_successes[k][1]].task.result
                  /\ \A j \in DOMAIN part_successes :
                        j < k => part_successes[j][1] < part_successes[k][1]
            /\ Len(part_logged) = Len(part_results) - Cardinality(ok)


----------------------------------------------------------------------------
(* The input rows.                                                          *)

\* C26: _parse_new_people leaves the rows it is handed as they were: after
\* the call every row holds the keys and values it held before.
C26_RowsUnchanged ==
    [][people_csv' = people_csv]_vars


----------------------------------------------------------------------------
(* Concurrent runs.                                                         *)

\* C24: a run submits exactly the rows that its own reading of the cache
\* did not hold, whatever the cache holds by the time it submits; nothing
\* ties the check to the submission, so the same row may be submitted by
\* both runs.
C24_CheckThenSubmit ==
    \A r \in Runs :
        race_pc[r] \in {"write", "done", "raised"} =>
            /\ \A k \in DOMAIN race_sent[r] :
                  \A f \in DOMAIN race_seen[r] :
                      from_json_string(race_seen[r][f]) # race_sent[r][k]
            /\ \A i \in DOMAIN race_csv :
                  LET inst == NewInstitution(UUID(race_csv[i].id), race_csv[i].name)
                  IN  (\A f \in DOMAIN race_seen[r] :
                          from_json_string(race_seen[r][f]) # inst)
                      => inst \in Range(race_sent[r])

\* Both runs passed the check before either wrote the cache, and both
\* submitted the one row of the CSV; the first wrote the cache, the second
\* found the file there.
C24_Witness ==
    /\ Len(race_csv) = 1
    /\ race_sent[1] = race_sent[2]
    /\ Len(race_sent[1]) = 1
    /\ race_pc[1] = "done"
    /\ race_pc[2] = "raised"
    /\ DOMAIN race_cache = {race_sent[1][1].id}


----------------------------------------------------------------------------
(* cDNA groups.                                                             *)

\* C30: for every gems_id, the cDNA that parse from the CSV with that id
\* and are not pre-existing are, in the order of the CSV, the members of
\* one returned group, and of no group when there are none; all members of
\* a group share its gems_id and no two groups share one; a group of one
\* member is Single, a group of several members of one library type is
\* OnChipMultiplexing, and a group of several library types is Multiple.
C30_CdnaGroups ==
    cdna_pc = "returned" =>
        LET parsed == [i \in DOMAIN cdna_csv |-> _parse_cdna_row(cdna_csv[i])]
            kept(id) == {i \in DOMAIN cdna_csv :
                           /\ ~cdna_csv[i].empty
                           /\ cdna_csv[i].gems_readable_id \in DOMAIN gems
                           /\ gems[cdna_csv[i].gems_readable_id] = id
                           /\ cdna_csv[i].readable_id \notin remote_cdna}
        IN  /\ \A id \in {gems[g] : g \in DOMAIN gems} :
                  IF kept(id) = {}
                  THEN \A k \in DOMAIN new_cdna :
                          \A m \in DOMAIN new_cdna[k].members :
                              new_cdna[k].members[m].gems_id # id
                  ELSE \E k \in DOMAIN new_cdna :
                          new_cdna[k].members = FilterIdx(parsed, kept(id), 1)
            /\ \A k \in DOMAIN new_cdna :
                  /\ new_cdna[k].members # <<>>
                  /\ \A m \in DOMAIN new_cdna[k].members :
                        new_cdna[k].members[m].gems_id = new_cdna[k].members[1].gems_id
                  /\ \A j \in DOMAIN new_cdna :
                        j # k => new_cdna[j].members[1].gems_id
                                   # new_cdna[k].members[1].gems_id
                  /\ LET types == {new_cdna[k].members[m].library_type :
                                     m \in DOMAIN new_cdna[k].members}
                     IN  new_cdna[k].kind =
                            IF Len(new_cdna[k].members) = 1 THEN "Single"
                            ELSE IF Cardinality(types) = 1 THEN "OnChipMultiplexing"
                            ELSE "Multiple"

\* A CSV whose rows of one GEMs are not next to each other: they come back
\* as one Multiple group, the row in between as a Single one.
C30_Witness ==
    /\ cdna_pc = "returned"
    /\ Len(cdna_csv) = 3
    /\ cdna_csv[1].gems_readable_id = "G2" /\ cdna_csv[1].library_type = "VDJ-T"
    /\ cdna_csv[2].gems_readable_id = "G1"
    /\ cdna_csv[3].gems_readable_id = "G2"
    /\ Len(new_cdna) = 2
    /\ new_cdna[1].kind = "Single"
    /\ new_cdna[2].kind = "Multiple"
    /\ Len(new_cdna[2].members) = 2

====
